---------------------------- MODULE Spec2Model ----------------------------
(***************************************************************************)
(* Quickfund: loan origination, repayment bookkeeping and gateway webhook  *)
(* handling, modelled as a state machine over the relational store.        *)
(*                                                                         *)
(* Reading conventions for the source, which spells one concept several    *)
(* ways across modules:                                                    *)
(*  - Loan.outstanding_balance (loans/models.py), loan.balance             *)
(*    (loans/signals.py, payments/views.py) and loan.outstanding_amount    *)
(*    (payments/services.py, payments/tasks.py) are one stored field,      *)
(*    written outstanding_balance here.                                    *)
(*  - status literals are compared case-insensitively ('ACTIVE' and        *)
(*    'active' are one status) and written in lower case; 'paid' and       *)
(*    'completed' are different statuses, as in the source.                *)
(*  - money is counted in whole units of the minimum payment               *)
(*    (MIN_PAYMENT_AMOUNT, 100); the Decimal formulas are computed exactly *)
(*    on the inputs the model enumerates.                                  *)
(***************************************************************************)
EXTENDS Integers, Sequences, FiniteSets, Bags, TLC

\* ------------------------------------------------------------- bounds
MaxApps == 2          \* applications submitted in one behaviour
MaxSubmissions == 4   \* of them, while the limit of pending ones is followed
MaxLoanApps == 1      \* of them, while gateway payments are followed
MaxGatewayRows == 1   \* charges initialised while webhook deliveries are followed
MaxAmount == 2        \* largest amount a request may carry
MaxTransactions == 1  \* PaymentTransaction rows initialised
MaxPayments == 2      \* Payment rows initialised
MaxWebhooks == 2      \* webhook deliveries that pass the signature check
MaxRepayments == 2    \* Repayment rows
MaxRepaid == 3        \* total a loan is credited with by verifications
MaxPrincipal == 3     \* principal of the loan whose charge is redelivered
MaxDeliveries == 3    \* deliveries of that charge
MaxCharges == 2       \* charges while their refunds are followed
MaxMethods == 2       \* PaymentMethod rows
MaxNotifications == 1 \* Notification rows with delivery counters
MaxQueued == 3        \* send_notification_task messages at the broker
MaxTicks == 1         \* retry windows after which the clock stops
MaxInstalments == 1   \* payments Repayment rows
MaxDue == 2           \* amount of an instalment
MaxFee == 4           \* late fee of an instalment
MaxLogins == 1        \* token pairs a user holds
MaxPeriods == 2       \* five-minute periods the clock runs while codes are followed
MaxDays == 1          \* days the clock runs while the payment jobs are followed
MaxRateTicks == 4     \* periods the clock runs while rate-limited calls are followed
max_requests == 2     \* rate_limit(max_requests=...)
window == 2           \* rate_limit(window=...), in periods
HmacMod == 2          \* size of the digest space

\* ---------------------------------------------------- program constants
AutoApproveScore == 700        \* loans/views.py:195
TaskMaxRetries == 3
DefaultMaxAttempts == 3
RetryWindowHours == 24
DaysToKeep == 90
LateFeePercent == 5
OtpTimeout == 1                \* users/views.py:166 (300 seconds: one period)
MaxPendingApplications == 3    \* loans/views.py:178
MinCreditScore == 400          \* users/models.py:181
MinPaymentAmount == 1          \* payments/services.py:347 (one unit)
SecretKey == 5                 \* settings.PAYSTACK_SECRET_KEY

Users == {"u1", "u2"}
Amounts == 1..MaxAmount
\* annual percentages; 1200 is a monthly rate of exactly 1
InterestRates == {0, 1200}
Terms == {1}
\* outcomes of the scoring run at application time, either side of the
\* auto-approval threshold
ScoreSamples == {AutoApproveScore - 1, AutoApproveScore}

VARIABLES
    users,          \* CustomUser rows: eligibility-relevant fields
    applications,   \* LoanApplication rows, in creation order
    loans,          \* Loan rows, in creation order
    transactions,   \* PaymentTransaction rows, index = reference
    payments,       \* Payment rows, index = reference
    gateway,        \* the provider's own state of each reference
    repayments,     \* Repayment rows
    notifications,  \* bag of queued notification tasks
    webhookLog,     \* WebhookLog rows
    workers,        \* request handlers between their read and their write
    response,       \* the last response returned by a handler
    refunds,        \* bag of the PaymentTransaction rows of type refund
    paymentMethods, \* PaymentMethod rows
    notificationLog,\* NotificationLog rows
    schedule,       \* queued send_notification_task messages
    cache,          \* the cache: key -> value and expiry
    clock,          \* the time, in periods of five minutes
    accounts,       \* CustomUser rows: credentials, verification, activity
    instalments,    \* payments Repayment rows: scheduled instalments
    rateLimits,     \* the cache's rate_limit:<caller> counters and their expiry
    windows         \* per caller: start of the current window, calls let through in it

vars == <<users, applications, loans, transactions, payments, gateway,
          repayments, notifications, webhookLog, workers, response,
          refunds, paymentMethods, notificationLog, schedule, cache, clock,
          accounts, instalments, rateLimits, windows>>

\* the tables of the loan and gateway handlers, and those of the other
\* services
loanStores == <<users, applications, loans, transactions, payments, gateway,
                repayments, notifications, webhookLog>>
serviceStores == <<refunds, paymentMethods, notificationLog, schedule, cache,
                   clock, accounts, instalments, rateLimits, windows>>

Workers == {"w1", "w2"}

\* ------------------------------------------------------------ statuses
LoanStatuses == {"pending", "under_review", "approved", "rejected",
                 "disbursed", "active", "completed", "overdue",
                 "defaulted", "cancelled", "paid"}

\* LoanStatusManager.STATUS_TRANSITIONS
STATUS_TRANSITIONS(s) ==
    CASE s = "pending"      -> {"under_review", "cancelled"}
      [] s = "under_review" -> {"approved", "rejected"}
      [] s = "approved"     -> {"active", "cancelled"}
      [] s = "active"       -> {"completed", "defaulted"}
      [] OTHER              -> {}

can_transition(current_status, new_status) ==
    new_status \in STATUS_TRANSITIONS(current_status)

\* ------------------------------------------------------------- helpers
RECURSIVE Pow(_, _)
Pow(b, n) == IF n = 0 THEN 1 ELSE b * Pow(b, n - 1)

Indices(seq) == 1..Len(seq)

Notify(bag, type, target) == bag (+) SetToBag({[type |-> type, target |-> target]})

NotifyCount(type, target) ==
    CopiesIn([type |-> type, target |-> target], notifications)

\* ------------------------------------------------------- Loan (model)
\* pre_save receiver calculate_loan_balance: a new loan's balance is the
\* amortised total, or the principal when the rate is zero
calculate_loan_balance(principal, interest_rate, term_months) ==
    LET monthly_rate == interest_rate \div 1200
    IN  IF monthly_rate > 0
        THEN ((principal * monthly_rate * Pow(1 + monthly_rate, term_months))
                \div (Pow(1 + monthly_rate, term_months) - 1)) * term_months
        ELSE principal

\* Loan.save on a stored row: "if not self.outstanding_balance" is true of
\* None and of zero
Loan_save(loan) ==
    [loan EXCEPT !.outstanding_balance =
        IF loan.outstanding_balance = 0 THEN loan.principal_amount ELSE @]

\* Loan.objects.create: Loan.save seeds the balance with the principal,
\* then the pre_save receiver replaces it by the computed total
Loan_objects_create(borrower, application, principal, interest_rate, term_months, status) ==
    LET seeded == Loan_save([borrower |-> borrower,
                             application |-> application,
                             principal_amount |-> principal,
                             interest_rate |-> interest_rate,
                             term_months |-> term_months,
                             outstanding_balance |-> 0,
                             total_repaid |-> 0,
                             status |-> status])
    IN  [seeded EXCEPT !.outstanding_balance =
            calculate_loan_balance(principal, interest_rate, term_months)]

\* ------------------------------------------------------- User (model)
NonTerminalForEligibility == {"pending", "approved", "disbursed"}

\* CustomUser.can_apply_for_loan
can_apply_for_loan(u) ==
    IF ~users[u].kyc_verified THEN <<FALSE, "KYC verification required">>
    ELSE IF ~users[u].is_profile_complete THEN <<FALSE, "Profile completion required">>
    ELSE IF users[u].credit_score < MinCreditScore THEN <<FALSE, "Credit score too low">>
    ELSE IF Cardinality({i \in Indices(loans) :
                            /\ loans[i].borrower = u
                            /\ loans[i].status \in NonTerminalForEligibility}) > 0
         THEN <<FALSE, "You have an active loan application or loan">>
    ELSE <<TRUE, "Eligible for loan application">>

\* one user who has completed KYC and one who has not
UserProfiles ==
    [u \in Users |->
        IF u = "u1"
        THEN [kyc_verified |-> TRUE, is_profile_complete |-> TRUE, credit_score |-> 500]
        ELSE [kyc_verified |-> FALSE, is_profile_complete |-> FALSE, credit_score |-> 500]]

\* ------------------------------------------------ responses of handlers
Resp(op, code) == [op |-> op, code |-> code, body |-> ""]
RespBody(op, code, body) == [op |-> op, code |-> code, body |-> body]

\* --------------------------------------------- loans/signals.py receivers
\* handle_loan_application_created (post_save, created): queue the scoring
\* job and the "application received" notification
handle_loan_application_created(ns, app_id) ==
    Notify(ns, "application_received", app_id)

\* handle_loan_application_status_change (post_save, not created, status
\* changed): on approval create the funded Loan and queue "loan approved";
\* on rejection queue "loan rejected".  Yields the new loans and
\* notifications.
handle_loan_application_status_change(ls, ns, app, app_id, previous_status) ==
    IF app.status = previous_status
    THEN [loans |-> ls, notifications |-> ns]
    ELSE IF app.status = "approved"
    THEN [loans |-> Append(ls, Loan_objects_create(app.borrower, app_id, app.amount,
                                    app.interest_rate, app.term_months, "active")),
          notifications |-> Notify(ns, "loan_approved", Len(ls) + 1)]
    ELSE IF app.status = "rejected"
    THEN [loans |-> ls, notifications |-> Notify(ns, "loan_rejected", app_id)]
    ELSE [loans |-> ls, notifications |-> ns]

\* handle_repayment_created (post_save of Repayment, created and completed):
\* decrement the loan's balance, complete the loan at zero, save, queue
\* "payment received".  Yields the loan and the notifications.
handle_repayment_created(loan, loan_id, ns, repayment, repayment_id) ==
    IF repayment.status # "completed"
    THEN [loan |-> loan, notifications |-> ns]
    ELSE LET balance == loan.outstanding_balance - repayment.amount
             updated == IF balance <= 0
                        THEN [loan EXCEPT !.status = "completed",
                                          !.outstanding_balance = 0]
                        ELSE [loan EXCEPT !.outstanding_balance = balance]
         IN  [loan |-> Loan_save(updated),
              notifications |-> Notify(ns, "payment_received", repayment_id)]

\* ------------------------------------- loans/views.py LoanApplicationViewSet
PendingApplications(u) ==
    Cardinality({i \in Indices(applications) :
                    /\ applications[i].borrower = u
                    /\ applications[i].status = "pending"})

\* the commit of an approval: the application row is saved as approved
\* (which runs the status-change receiver), then the view creates its Loan
ApproveCommit(apps, ls, ns, app_id, app) ==
    LET approved == [app EXCEPT !.status = "approved"]
        viaSignal == handle_loan_application_status_change(
                        ls, ns, approved, app_id, app.status)
    IN  [applications |-> [apps EXCEPT ![app_id] = approved],
         loans |-> Append(viaSignal.loans,
                     Loan_objects_create(app.borrower, app_id, app.amount,
                                         app.interest_rate, app.term_months, "active")),
         notifications |-> viaSignal.notifications]

\* the commit of a rejection
RejectCommit(apps, ls, ns, app_id, app, reason) ==
    LET rejected == [app EXCEPT !.status = "rejected", !.rejection_reason = reason]
        viaSignal == handle_loan_application_status_change(
                        ls, ns, rejected, app_id, app.status)
    IN  [applications |-> [apps EXCEPT ![app_id] = rejected],
         loans |-> viaSignal.loans,
         notifications |-> viaSignal.notifications]

\* LoanApplicationViewSet.create on a body the serializer accepts
LoanApplicationViewSet_create(u, amount, interest_rate, term_months, credit_score) ==
    /\ IF PendingApplications(u) >= MaxPendingApplications
       THEN /\ response' = RespBody("create_application", 400,
                                    "Maximum number of pending applications reached")
            /\ UNCHANGED <<applications, loans, notifications>>
       ELSE LET app_id == Len(applications) + 1
                app == [borrower |-> u, amount |-> amount,
                        interest_rate |-> interest_rate,
                        term_months |-> term_months,
                        status |-> "pending", rejection_reason |-> ""]
                created == Append(applications, app)
                received == handle_loan_application_created(notifications, app_id)
            IN  /\ response' = Resp("create_application", 201)
                /\ IF credit_score >= AutoApproveScore
                   THEN LET r == ApproveCommit(created, loans, received, app_id, app)
                        IN  /\ applications' = r.applications
                            /\ loans' = r.loans
                            /\ notifications' = r.notifications
                   ELSE /\ applications' = created
                        /\ notifications' = received
                        /\ UNCHANGED loans
    /\ UNCHANGED <<serviceStores, users, transactions, payments, gateway, repayments,
                   webhookLog, workers>>

\* LoanApplicationCreateSerializer.is_valid: purpose is a required,
\* non-blank field
LoanApplicationCreateSerializer_is_valid(purpose) == purpose # ""

\* LoanApplicationViewSet.create on any body: serializer.is_valid(
\* raise_exception=True) comes first and answers field errors
LoanApplicationViewSet_create_request(u, purpose, amount, interest_rate, term_months, credit_score) ==
    IF ~LoanApplicationCreateSerializer_is_valid(purpose)
    THEN /\ response' = RespBody("create_application", 400, "field errors")
         /\ UNCHANGED <<serviceStores, users, applications, loans, transactions, payments,
                        gateway, repayments, notifications, webhookLog, workers>>
    ELSE LoanApplicationViewSet_create(u, amount, interest_rate, term_months,
                                       credit_score)

\* LoanApplicationViewSet.approve, handled without interruption
LoanApplicationViewSet_approve(app_id) ==
    /\ app_id \in Indices(applications)
    /\ IF applications[app_id].status # "pending"
       THEN /\ response' = Resp("approve", 400)
            /\ UNCHANGED <<applications, loans, notifications>>
       ELSE LET r == ApproveCommit(applications, loans, notifications,
                                   app_id, applications[app_id])
            IN  /\ applications' = r.applications
                /\ loans' = r.loans
                /\ notifications' = r.notifications
                /\ response' = Resp("approve", 200)
    /\ UNCHANGED <<serviceStores, users, transactions, payments, gateway, repayments,
                   webhookLog, workers>>

\* LoanApplicationViewSet.reject, handled without interruption
LoanApplicationViewSet_reject(app_id, reason) ==
    /\ app_id \in Indices(applications)
    /\ IF applications[app_id].status # "pending"
       THEN /\ response' = Resp("reject", 400)
            /\ UNCHANGED <<applications, loans, notifications>>
       ELSE LET r == RejectCommit(applications, loans, notifications,
                                  app_id, applications[app_id], reason)
            IN  /\ applications' = r.applications
                /\ loans' = r.loans
                /\ notifications' = r.notifications
                /\ response' = Resp("reject", 200)
    /\ UNCHANGED <<serviceStores, users, transactions, payments, gateway, repayments,
                   webhookLog, workers>>

\* ------------------------------------------------------- Repayment rows
RepaymentRow(loan_id, amount, status, reference) ==
    [loan |-> loan_id, amount |-> amount, status |-> status,
     transaction_reference |-> reference]

\* Loan.update_balance_after_payment: the debit is capped at the balance,
\* the balance decremented, and at zero the loan is completed
update_balance_after_payment(loan, amount) ==
    LET debit == IF amount > loan.outstanding_balance
                 THEN loan.outstanding_balance ELSE amount
        balance == loan.outstanding_balance - debit
        updated == [loan EXCEPT !.outstanding_balance = IF balance <= 0 THEN 0 ELSE balance,
                                !.total_repaid = @ + debit,
                                !.status = IF balance <= 0 THEN "completed" ELSE @]
    IN  Loan_save(updated)

\* LoanViewSet.make_payment.  Loan defines no update_balance_after_payment:
\* the call either raises, which rolls the atomic block back, or runs the
\* method described above.
LoanViewSet_make_payment(loan_id, amount, resolved) ==
    /\ loan_id \in Indices(loans)
    /\ Len(repayments) < MaxRepayments
    /\ IF amount <= 0
       THEN /\ response' = Resp("make_payment", 400)
            /\ UNCHANGED <<loans, repayments, notifications>>
       ELSE IF loans[loan_id].status # "active"
       THEN /\ response' = Resp("make_payment", 400)
            /\ UNCHANGED <<loans, repayments, notifications>>
       ELSE IF ~resolved
       THEN /\ response' = Resp("make_payment", 500)
            /\ UNCHANGED <<loans, repayments, notifications>>
       ELSE LET repayment == RepaymentRow(loan_id, amount, "completed", 0)
                repayment_id == Len(repayments) + 1
                viaSignal == handle_repayment_created(loans[loan_id], loan_id,
                                notifications, repayment, repayment_id)
            IN  /\ repayments' = Append(repayments, repayment)
                /\ loans' = [loans EXCEPT ![loan_id] =
                                update_balance_after_payment(viaSignal.loan, amount)]
                /\ notifications' = viaSignal.notifications
                /\ response' = Resp("make_payment", 200)
    /\ UNCHANGED <<serviceStores, users, applications, transactions, payments, gateway,
                   webhookLog, workers>>

\* ------------------------------------------- payments/services.py (first
\* PaymentService)
\* _validate_payment_amount
validate_payment_amount(loan, amount, payment_type) ==
    /\ amount > 0
    /\ payment_type = "repayment" =>
          /\ amount <= loan.outstanding_balance
          /\ amount >= MinPaymentAmount

NextReference == Cardinality(DOMAIN transactions) + Cardinality(DOMAIN payments) + 1

\* PaymentService.initialize_payment: a failed validation or provider call
\* rolls the transaction row back
PaymentService_initialize_payment(loan_id, amount, payment_type, provider_ok) ==
    /\ loan_id \in Indices(loans)
    /\ IF validate_payment_amount(loans[loan_id], amount, payment_type) /\ provider_ok
       THEN /\ transactions' = (NextReference :>
                    [user |-> loans[loan_id].borrower, loan |-> loan_id,
                     amount |-> amount, payment_type |-> payment_type,
                     status |-> "pending", created_at |-> clock,
                     completed_at |-> 0, retry_count |-> 0]) @@ transactions
            /\ gateway' = (NextReference :> "pending") @@ gateway
            /\ response' = Resp("initialize_payment", 200)
       ELSE /\ response' = Resp("initialize_payment", 400)
            /\ UNCHANGED <<transactions, gateway>>
    /\ UNCHANGED <<serviceStores, users, applications, loans, payments, repayments,
                   notifications, webhookLog, workers>>

\* PaymentService.create_repayment: the Repayment row is created completed
\* (which runs handle_repayment_created on the same loan object), then the
\* service debits the loan itself and saves it
create_repayment(loan, loan_id, ns, rs, amount, reference) ==
    LET repayment == RepaymentRow(loan_id, amount, "completed", reference)
        viaSignal == handle_repayment_created(loan, loan_id, ns, repayment, Len(rs) + 1)
        debited == [viaSignal.loan EXCEPT
                        !.outstanding_balance = @ - amount,
                        !.total_repaid = @ + amount]
        settled == IF debited.outstanding_balance <= 0
                   THEN [debited EXCEPT !.status = "paid"] ELSE debited
    IN  [loan |-> Loan_save(settled),
         repayments |-> Append(rs, repayment),
         notifications |-> viaSignal.notifications]

\* PaymentService._process_successful_payment.  Yields the new rows.
process_successful_payment(txs, ls, rs, ns, reference) ==
    LET tx == txs[reference]
        completed == [txs EXCEPT ![reference].status = "completed",
                                 ![reference].completed_at = clock]
    IN  IF tx.payment_type = "repayment"
        THEN LET r == create_repayment(ls[tx.loan], tx.loan, ns, rs, tx.amount, reference)
             IN  [transactions |-> completed,
                  loans |-> [ls EXCEPT ![tx.loan] = r.loan],
                  repayments |-> r.repayments,
                  notifications |-> Notify(r.notifications, "payment_confirmation",
                                           Len(r.repayments))]
        ELSE [transactions |-> completed, loans |-> ls, repayments |-> rs,
              notifications |-> ns]

\* PaymentService._process_failed_payment
process_failed_payment(txs, reference) ==
    [txs EXCEPT ![reference].status = "failed"]

\* PaymentService.verify_payment on the rows handed in: "ok" with the new
\* rows, or "error" when the transaction is unknown or the provider call
\* raises
verify_payment_rows(txs, ls, rs, ns, reference, provider_ok) ==
    IF reference \notin DOMAIN txs \/ ~provider_ok
    THEN [outcome |-> "error", transactions |-> txs, loans |-> ls,
          repayments |-> rs, notifications |-> ns]
    ELSE IF gateway[reference] = "success"
    THEN LET r == process_successful_payment(txs, ls, rs, ns, reference)
         IN  [outcome |-> "ok", transactions |-> r.transactions, loans |-> r.loans,
              repayments |-> r.repayments, notifications |-> r.notifications]
    ELSE [outcome |-> "ok",
          transactions |-> process_failed_payment(txs, reference),
          loans |-> ls, repayments |-> rs, notifications |-> ns]

\* PaymentService.verify_payment on the stored rows
verify_payment(reference, provider_ok) ==
    verify_payment_rows(transactions, loans, repayments, notifications,
                        reference, provider_ok)

\* ------------------------------------------------------ webhook requests
\* A request carries a raw body and a signature header.  Raw bodies are
\* numbered: 0 is not JSON, every other number decodes to an event name
\* and a data.reference (0: no reference in the payload).
Events == <<"charge.success", "charge.failed", "transfer.success", "invoice.create">>
MaxReference == MaxTransactions + MaxPayments
ChargeBodies == 2 * (MaxReference + 1)
RawBodies == 0..(ChargeBodies + 2)
Signatures == 0..HmacMod      \* 0: header absent or empty

\* json.loads(request.body): the charge events carry data.reference
json_loads(raw) ==
    IF raw = 0 THEN [valid |-> FALSE, event |-> "", reference |-> 0]
    ELSE IF raw <= ChargeBodies
    THEN [valid |-> TRUE,
          event |-> Events[((raw - 1) % 2) + 1],
          reference |-> (raw - 1) \div 2]
    ELSE [valid |-> TRUE, event |-> Events[raw - ChargeBodies + 2], reference |-> 0]

\* hmac.new(secret, payload, sha512).hexdigest(): a keyed digest, never 0
hmac_digest(key, raw) == ((key * 31 + raw * 17) % HmacMod) + 1

\* a check that compares the header with the digest of an empty body
validate_signature_unbound(raw, signature) ==
    hmac_digest(SecretKey, 0) = signature

\* PaystackWebhookHandler.validate_signature
validate_signature(raw, signature) ==
    hmac_digest(SecretKey, raw) = signature

\* Only the gateway holds the secret: a request whose signature is the
\* digest of its body is an event the gateway really emitted.
GatewayEmits(raw) ==
    LET payload == json_loads(raw)
    IN  \/ ~payload.valid
        \/ payload.event \in {"transfer.success", "invoice.create"}
        \/ /\ payload.event = "charge.success"
           /\ payload.reference \in DOMAIN gateway
           /\ gateway[payload.reference] = "success"
        \/ /\ payload.event = "charge.failed"
           /\ payload.reference \in DOMAIN gateway
           /\ gateway[payload.reference] = "failed"

Deliverable(raw, signature) ==
    signature = hmac_digest(SecretKey, raw) => GatewayEmits(raw)

\* BaseWebhookHandler.log_webhook
log_webhook(log, payload, status) ==
    Append(log, [provider |-> "paystack", event_type |-> payload.event,
                 status |-> status])

\* PaystackWebhookHandler.process_webhook with its four handlers: the result
\* status and the rows after it
process_webhook(payload, provider_ok) ==
    LET same == [status |-> "success", transactions |-> transactions, loans |-> loans,
                 repayments |-> repayments, notifications |-> notifications]
    IN  IF payload.event = "charge.success"
        THEN IF payload.reference = 0
             THEN [same EXCEPT !.status = "error"]
             ELSE LET v == verify_payment(payload.reference, provider_ok)
                  IN  [status |-> IF v.outcome = "ok" THEN "success" ELSE "error",
                       transactions |-> v.transactions, loans |-> v.loans,
                       repayments |-> v.repayments, notifications |-> v.notifications]
        ELSE IF payload.event = "charge.failed"
        THEN IF payload.reference = 0
             THEN [same EXCEPT !.status = "error"]
             ELSE IF payload.reference \in DOMAIN transactions
             THEN [same EXCEPT !.transactions =
                        [transactions EXCEPT ![payload.reference].status = "failed"]]
             ELSE same
        ELSE IF payload.event = "transfer.success"
        THEN same
        ELSE [same EXCEPT !.status = "ignored"]

\* payments/webhooks.py PaystackWebhookView.post
PaystackWebhookView_post(raw, signature, provider_ok) ==
    /\ Deliverable(raw, signature)
    /\ IF signature = 0
       THEN /\ response' = RespBody("webhook", 400, "Missing signature")
            /\ UNCHANGED <<transactions, loans, repayments, notifications, webhookLog>>
       ELSE IF ~validate_signature(raw, signature)
       THEN /\ response' = RespBody("webhook", 400, "Invalid signature")
            /\ UNCHANGED <<transactions, loans, repayments, notifications, webhookLog>>
       ELSE IF ~json_loads(raw).valid
       THEN /\ response' = RespBody("webhook", 400, "Invalid JSON")
            /\ UNCHANGED <<transactions, loans, repayments, notifications, webhookLog>>
       ELSE LET payload == json_loads(raw)
                result == process_webhook(payload, provider_ok)
            IN  /\ transactions' = result.transactions
                /\ loans' = result.loans
                /\ repayments' = result.repayments
                /\ notifications' = result.notifications
                /\ webhookLog' = log_webhook(webhookLog, payload, result.status)
                /\ response' = IF result.status = "error"
                               THEN RespBody("webhook", 400, "Processing failed")
                               ELSE RespBody("webhook", 200, "OK")
    /\ UNCHANGED <<serviceStores, users, applications, payments, gateway, workers>>

\* ------------------------------------------- Payment rows (payments/views)
\* PaymentVerificationView.process_loan_repayment on a loaded loan object
process_loan_repayment(loan, amount) ==
    LET debited == [loan EXCEPT !.total_repaid = @ + amount,
                                !.outstanding_balance = @ - amount]
        settled == IF debited.outstanding_balance <= 0
                   THEN [debited EXCEPT !.status = "paid"] ELSE debited
    IN  Loan_save(settled)

\* loans/views.py LoanRepaymentView.post
LoanRepaymentView_post(u, loan_id, requested, gateway_ok) ==
    /\ loan_id \in Indices(loans)
    /\ Cardinality(DOMAIN payments) < MaxPayments
    /\ IF loans[loan_id].borrower # u
       THEN /\ response' = Resp("loan_repayment", 404)
            /\ UNCHANGED <<payments, gateway>>
       ELSE IF requested <= 0
       THEN /\ response' = Resp("loan_repayment", 400)
            /\ UNCHANGED <<payments, gateway>>
       ELSE LET amount == IF requested > loans[loan_id].outstanding_balance
                          THEN loans[loan_id].outstanding_balance ELSE requested
                row == [user |-> u, loan |-> loan_id, amount |-> amount,
                        payment_type |-> "loan_repayment", status |-> "pending"]
            IN  IF gateway_ok
                THEN /\ payments' = (NextReference :> row) @@ payments
                     /\ gateway' = (NextReference :> "pending") @@ gateway
                     /\ response' = Resp("loan_repayment", 200)
                ELSE /\ payments' = (NextReference :> [row EXCEPT !.status = "failed"])
                                        @@ payments
                     /\ response' = Resp("loan_repayment", 400)
                     /\ UNCHANGED gateway
    /\ UNCHANGED <<serviceStores, users, applications, loans, transactions, repayments,
                   notifications, webhookLog, workers>>

\* PaystackCallbackView.verify_webhook_signature: compare_digest raises on a
\* missing header, which post answers like a mismatch
verify_webhook_signature(raw, signature) ==
    signature # 0 /\ signature = hmac_digest(SecretKey, raw)

\* payments/views.py PaystackCallbackView.post
PaystackCallbackView_post(raw, signature) ==
    /\ Deliverable(raw, signature)
    /\ IF ~verify_webhook_signature(raw, signature)
       THEN /\ response' = Resp("callback", 400)
            /\ UNCHANGED <<payments, loans>>
       ELSE IF ~json_loads(raw).valid
       THEN /\ response' = Resp("callback", 400)
            /\ UNCHANGED <<payments, loans>>
       ELSE LET payload == json_loads(raw)
                known == payload.reference \in DOMAIN payments
            IN  /\ response' = Resp("callback", 200)
                /\ IF payload.event = "charge.success" /\ known
                      /\ payments[payload.reference].status = "pending"
                   THEN /\ payments' = [payments EXCEPT
                                           ![payload.reference].status = "completed"]
                        /\ loans' = [loans EXCEPT ![payments[payload.reference].loan] =
                                process_loan_repayment(@, payments[payload.reference].amount)]
                   ELSE IF payload.event = "charge.failed" /\ known
                   THEN /\ payments' = [payments EXCEPT
                                           ![payload.reference].status = "failed"]
                        /\ UNCHANGED loans
                   ELSE UNCHANGED <<payments, loans>>
    /\ UNCHANGED <<serviceStores, users, applications, transactions, gateway, repayments,
                   notifications, webhookLog, workers>>

\* payments/views.py PaystackWebhookView._verify_signature
verify_signature(raw, signature) ==
    IF signature = 0 THEN FALSE ELSE signature = hmac_digest(SecretKey, raw)

\* payments/views.py PaystackWebhookView.post
PaymentsPaystackWebhookView_post(raw, signature) ==
    /\ Deliverable(raw, signature)
    /\ IF ~verify_signature(raw, signature)
       THEN /\ response' = Resp("payments_webhook", 400)
            /\ UNCHANGED payments
       ELSE IF ~json_loads(raw).valid
       THEN /\ response' = Resp("payments_webhook", 500)
            /\ UNCHANGED payments
       ELSE LET payload == json_loads(raw)
                known == payload.reference \in DOMAIN payments
            IN  /\ response' = Resp("payments_webhook", 200)
                /\ IF payload.event = "charge.success" /\ known
                   THEN payments' = [payments EXCEPT
                                        ![payload.reference].status = "completed"]
                   ELSE IF payload.event = "charge.failed" /\ known
                   THEN payments' = [payments EXCEPT
                                        ![payload.reference].status = "failed"]
                   ELSE UNCHANGED payments
    /\ UNCHANGED <<serviceStores, users, applications, loans, transactions, gateway, repayments,
                   notifications, webhookLog, workers>>

\* ------------------------------------------------------ payments/tasks.py
RECURSIVE SumCompleted(_, _, _)
SumCompleted(rs, loan_id, i) ==
    IF i = 0 THEN 0
    ELSE SumCompleted(rs, loan_id, i - 1)
         + (IF rs[i].loan = loan_id /\ rs[i].status = "completed"
            THEN rs[i].amount ELSE 0)

\* the body of update_loan_payment_status for one active loan
recompute_loan(loan, loan_id) ==
    LET total_repaid == SumCompleted(repayments, loan_id, Len(repayments))
    IN  IF total_repaid # loan.total_repaid
        THEN LET outstanding == loan.principal_amount - total_repaid
                 updated == [loan EXCEPT !.total_repaid = total_repaid,
                                         !.outstanding_balance = outstanding,
                                         !.status = IF outstanding <= 0 THEN "paid" ELSE @]
             IN  Loan_save(updated)
        ELSE loan

\* update_loan_payment_status (scheduled task)
update_loan_payment_status ==
    /\ loans' = [i \in Indices(loans) |->
                    IF loans[i].status = "active"
                    THEN recompute_loan(loans[i], i) ELSE loans[i]]
    /\ response' = Resp("update_loan_payment_status", 200)
    /\ UNCHANGED <<serviceStores, users, applications, transactions, payments, gateway,
                   repayments, notifications, webhookLog, workers>>

\* ------------------------------------------------------------ the gateway
\* the customer completes or abandons the charge at the provider
Gateway_Settle(reference, outcome) ==
    /\ reference \in DOMAIN gateway
    /\ gateway[reference] = "pending"
    /\ gateway' = [gateway EXCEPT ![reference] = outcome]
    /\ UNCHANGED <<serviceStores, users, applications, loans, transactions, payments,
                   repayments, notifications, webhookLog, workers, response>>

\* ------------------------------------------- handlers running concurrently
\* A request handler reads its row, decides, and writes the whole row back
\* from the object it read: nothing locks the row in between.
Idle == [pc |-> "idle"]

\* LoanApplicationViewSet.approve up to its status check
LoanApplicationViewSet_approve_Read(w, app_id) ==
    /\ workers[w].pc = "idle"
    /\ app_id \in Indices(applications)
    /\ IF applications[app_id].status # "pending"
       THEN /\ response' = Resp("approve", 400)
            /\ UNCHANGED workers
       ELSE /\ workers' = [workers EXCEPT ![w] =
                    [pc |-> "approve", target |-> app_id,
                     object |-> applications[app_id]]]
            /\ UNCHANGED response
    /\ UNCHANGED <<serviceStores, users, applications, loans, transactions, payments, gateway,
                   repayments, notifications, webhookLog>>

\* LoanApplicationViewSet.approve from its transaction.atomic block on
LoanApplicationViewSet_approve_Write(w) ==
    /\ workers[w].pc = "approve"
    /\ LET r == ApproveCommit(applications, loans, notifications,
                              workers[w].target, workers[w].object)
       IN  /\ applications' = r.applications
           /\ loans' = r.loans
           /\ notifications' = r.notifications
    /\ response' = Resp("approve", 200)
    /\ workers' = [workers EXCEPT ![w] = Idle]
    /\ UNCHANGED <<serviceStores, users, transactions, payments, gateway, repayments, webhookLog>>

\* LoanApplicationViewSet.reject up to its status check
LoanApplicationViewSet_reject_Read(w, app_id) ==
    /\ workers[w].pc = "idle"
    /\ app_id \in Indices(applications)
    /\ IF applications[app_id].status # "pending"
       THEN /\ response' = Resp("reject", 400)
            /\ UNCHANGED workers
       ELSE /\ workers' = [workers EXCEPT ![w] =
                    [pc |-> "reject", target |-> app_id,
                     object |-> applications[app_id]]]
            /\ UNCHANGED response
    /\ UNCHANGED <<serviceStores, users, applications, loans, transactions, payments, gateway,
                   repayments, notifications, webhookLog>>

\* LoanApplicationViewSet.reject from its transaction.atomic block on
LoanApplicationViewSet_reject_Write(w, reason) ==
    /\ workers[w].pc = "reject"
    /\ LET r == RejectCommit(applications, loans, notifications,
                             workers[w].target, workers[w].object, reason)
       IN  /\ applications' = r.applications
           /\ loans' = r.loans
           /\ notifications' = r.notifications
    /\ response' = Resp("reject", 200)
    /\ workers' = [workers EXCEPT ![w] = Idle]
    /\ UNCHANGED <<serviceStores, users, transactions, payments, gateway, repayments, webhookLog>>

\* PaymentVerificationView.get up to the load of payment.loan
PaymentVerificationView_get_Read(w, u, reference, network_ok) ==
    /\ workers[w].pc = "idle"
    /\ reference \in DOMAIN payments
    /\ loans[payments[reference].loan].total_repaid < MaxRepaid
    /\ IF payments[reference].user # u
       THEN /\ response' = Resp("verify", 404)
            /\ UNCHANGED <<payments, workers>>
       ELSE IF ~network_ok
       THEN /\ response' = Resp("verify", 400)
            /\ UNCHANGED <<payments, workers>>
       ELSE IF reference \in DOMAIN gateway /\ gateway[reference] = "success"
       THEN /\ payments' = [payments EXCEPT ![reference].status = "completed"]
            /\ workers' = [workers EXCEPT ![w] =
                    [pc |-> "repay", target |-> reference,
                     object |-> loans[payments[reference].loan]]]
            /\ UNCHANGED response
       ELSE /\ payments' = [payments EXCEPT ![reference].status = "failed"]
            /\ response' = Resp("verify", 200)
            /\ UNCHANGED workers
    /\ UNCHANGED <<serviceStores, users, applications, loans, transactions, gateway, repayments,
                   notifications, webhookLog>>

\* PaymentVerificationView.process_loan_repayment: debit the loaded loan
\* object and save it
PaymentVerificationView_get_Write(w) ==
    /\ workers[w].pc = "repay"
    /\ LET payment == payments[workers[w].target]
       IN  loans' = [loans EXCEPT ![payment.loan] =
                        process_loan_repayment(workers[w].object, payment.amount)]
    /\ response' = Resp("verify", 200)
    /\ workers' = [workers EXCEPT ![w] = Idle]
    /\ UNCHANGED <<serviceStores, users, applications, transactions, payments, gateway,
                   repayments, notifications, webhookLog>>

\* ------------------------------------- payments/services.py RefundService
RECURSIVE SumAmounts(_, _)
\* the sum of the amounts of the rows in set S of the bag rs
SumAmounts(rs, S) ==
    IF S = {} THEN 0
    ELSE LET row == CHOOSE r \in S : TRUE
         IN  CopiesIn(row, rs) * row.amount + SumAmounts(rs, S \ {row})

\* aggregate(total=Sum('amount')) over the refund rows of one transaction;
\* refund rows carry negative amounts
SumRefunds(rs, reference) ==
    SumAmounts(rs, {r \in BagToSet(rs) : r.parent_transaction = reference})

Abs(x) == IF x < 0 THEN -x ELSE x

\* a validation that looks at the request alone, not at earlier refunds
validate_refund_alone(transaction, reference, amount) ==
    /\ transaction.status = "completed"
    /\ ~(amount <= 0 \/ amount > transaction.amount)

\* RefundService._validate_refund: TRUE when no ValidationError is raised
validate_refund(transaction, reference, amount) ==
    /\ transaction.status = "completed"
    /\ ~(amount <= 0 \/ amount > transaction.amount)
    /\ ~(Abs(SumRefunds(refunds, reference)) + amount
            > transaction.amount)

\* RefundService.process_refund; "amount or transaction.amount" takes the
\* whole amount when none (or zero) is given.  Any failure, of the
\* validation or of the provider, is raised as PaymentProcessingError.
RefundService_process_refund(reference, amount, provider_ok) ==
    /\ reference \in DOMAIN transactions
    /\ LET transaction == transactions[reference]
           refund_amount == IF amount = 0 THEN transaction.amount ELSE amount
       IN  IF validate_refund(transaction, reference, refund_amount) /\ provider_ok
           THEN /\ refunds' = refunds (+) SetToBag(
                                {[parent_transaction |-> reference,
                                  amount |-> -refund_amount,
                                  payment_type |-> "refund",
                                  status |-> "completed"]})
                /\ response' = RespBody("process_refund", 200, "completed")
           ELSE /\ response' = RespBody("process_refund", 400, "Refund failed")
                /\ UNCHANGED refunds
    /\ UNCHANGED <<loanStores, rateLimits, windows, workers, paymentMethods, notificationLog,
                   schedule, cache, clock, accounts, instalments>>

\* ------------------------------------------------ PaymentMethod rows
\* Each ORM statement is one step of the worker that handles the request:
\* the handlers run in no transaction and take no lock.
MethodsOf(pms, u) == {i \in Indices(pms) : pms[i].user = u}
DefaultsOf(pms, u) == {i \in MethodsOf(pms, u) : pms[i].is_default}

\* filter(user=u, is_default=True).exclude(pk=pk).update(is_default=False)
clear_defaults(pms, u, pk) ==
    [i \in Indices(pms) |->
        IF pms[i].user = u /\ i # pk THEN [pms[i] EXCEPT !.is_default = FALSE]
        ELSE pms[i]]

\* a table without the partial unique index
unique_default_unchecked(pms, u, pk, is_default) == TRUE

\* constraint unique_default_payment_method: the write of a default row is
\* refused (IntegrityError) while another row of the user is default
unique_default_payment_method(pms, u, pk, is_default) ==
    is_default => DefaultsOf(pms, u) \ {pk} = {}

\* PaymentMethodViewSet.perform_create up to serializer.save: the first
\* method of a user is made the default (pk 0: a row not yet stored)
PaymentMethodViewSet_perform_create(w, u) ==
    /\ workers[w] = Idle
    /\ Len(paymentMethods) < MaxMethods
    /\ workers' = [workers EXCEPT ![w] =
            [pc |-> "save", op |-> "create_method",
             object |-> [pk |-> 0, user |-> u,
                         is_default |-> MethodsOf(paymentMethods, u) = {}]]]
    /\ UNCHANGED <<loanStores, rateLimits, windows, response, serviceStores>>

\* ModelViewSet update: get_object, then serializer.save with the
\* is_default the body carries
PaymentMethodViewSet_update(w, u, pk, is_default) ==
    /\ workers[w] = Idle
    /\ IF pk \in MethodsOf(paymentMethods, u)
       THEN /\ workers' = [workers EXCEPT ![w] =
                    [pc |-> "save", op |-> "update_method",
                     object |-> [pk |-> pk, user |-> u, is_default |-> is_default]]]
            /\ UNCHANGED response
       ELSE /\ response' = Resp("update_method", 404)
            /\ UNCHANGED workers
    /\ UNCHANGED <<loanStores, rateLimits, windows, serviceStores>>

\* PaymentMethodViewSet.set_default: get_object
PaymentMethodViewSet_set_default(w, u, pk) ==
    /\ workers[w] = Idle
    /\ IF pk \in MethodsOf(paymentMethods, u)
       THEN /\ workers' = [workers EXCEPT ![w] =
                    [pc |-> "clear", op |-> "set_default",
                     object |-> [pk |-> pk, user |-> u,
                                 is_default |-> paymentMethods[pk].is_default]]]
            /\ UNCHANGED response
       ELSE /\ response' = Resp("set_default", 404)
            /\ UNCHANGED workers
    /\ UNCHANGED <<loanStores, rateLimits, windows, serviceStores>>

\* PaymentMethodViewSet.set_default: the update that removes the default
\* from the user's methods, then payment_method.is_default = True
PaymentMethodViewSet_set_default_Clear(w) ==
    /\ workers[w].pc = "clear"
    /\ paymentMethods' = clear_defaults(paymentMethods, workers[w].object.user, 0)
    /\ workers' = [workers EXCEPT ![w].pc = "save", ![w].object.is_default = TRUE]
    /\ UNCHANGED <<loanStores, rateLimits, windows, response, refunds, notificationLog, schedule,
                   cache, clock, accounts, instalments>>

\* PaymentMethod.save: the update that clears the other defaults
PaymentMethod_save_Clear(w) ==
    /\ workers[w].pc = "save"
    /\ paymentMethods' =
            IF workers[w].object.is_default
            THEN clear_defaults(paymentMethods, workers[w].object.user,
                                workers[w].object.pk)
            ELSE paymentMethods
    /\ workers' = [workers EXCEPT ![w].pc = "write"]
    /\ UNCHANGED <<loanStores, rateLimits, windows, response, refunds, notificationLog, schedule,
                   cache, clock, accounts, instalments>>

\* PaymentMethod.save: super().save() inserts or updates the row under the
\* table's constraint; an IntegrityError is answered 500
PaymentMethod_save_Write(w) ==
    /\ workers[w].pc = "write"
    /\ LET object == workers[w].object
           row == [user |-> object.user, is_default |-> object.is_default]
       IN  IF unique_default_payment_method(paymentMethods, object.user,
                                            object.pk, object.is_default)
           THEN /\ paymentMethods' =
                        IF object.pk = 0 THEN Append(paymentMethods, row)
                        ELSE [paymentMethods EXCEPT ![object.pk] = row]
                /\ response' = Resp(workers[w].op, IF object.pk = 0 THEN 201 ELSE 200)
           ELSE /\ response' = Resp(workers[w].op, 500)
                /\ UNCHANGED paymentMethods
    /\ workers' = [workers EXCEPT ![w] = Idle]
    /\ UNCHANGED <<loanStores, rateLimits, windows, refunds, notificationLog, schedule, cache, clock,
                   accounts, instalments>>

\* ------------------------------------------ notification delivery tasks
\* notificationLog holds the Notification rows with their delivery counters
\* (the tasks' retry_count / max_retries and NotificationLog's attempts /
\* max_attempts are one pair of counters); schedule is the bag of
\* send_notification_task messages the broker holds; clock counts periods
\* of five minutes.
Hours(h) == h * 12

\* NotificationLog.can_retry
can_retry(n) == n.retry_count < n.max_retries /\ n.status = "failed"

\* filters.get_failed_notifications_for_retry
get_failed_notifications_for_retry(rows, now, max_age_hours) ==
    {i \in Indices(rows) :
        /\ rows[i].stored
        /\ rows[i].status = "failed"
        /\ rows[i].retry_count < rows[i].max_retries
        /\ rows[i].created_at >= now - Hours(max_age_hours)}

\* send_notification_task.delay
delay(queue, id) == queue (+) SetToBag({[id |-> id, retries |-> 0]})

\* Task.retry: the retry message is sent before Retry is raised, unless
\* the task's own max_retries is used up
Task_retry(queue, msg) ==
    IF msg.retries + 1 <= TaskMaxRetries
    THEN queue (+) SetToBag({[id |-> msg.id, retries |-> msg.retries + 1]})
    ELSE queue

\* send_bulk_notifications_task for one entry: create the row and queue it
send_bulk_notifications_task(max_retries) ==
    /\ notificationLog' = Append(notificationLog,
            [status |-> "pending", retry_count |-> 0, max_retries |-> max_retries,
             created_at |-> clock, stored |-> TRUE])
    /\ schedule' = delay(schedule, Len(notificationLog) + 1)
    /\ response' = Resp("send_bulk_notifications_task", 200)
    /\ UNCHANGED <<loanStores, rateLimits, windows, workers, refunds, paymentMethods, cache, clock,
                   accounts, instalments>>

\* the except Exception handler of send_notification_task: Retry raised in
\* the body lands here as well; a Retry raised here is swallowed
send_notification_task_except(rows, queue, msg) ==
    LET n == [rows[msg.id] EXCEPT !.status = "failed",
                                  !.retry_count = rows[msg.id].retry_count + 1]
    IN  [rows |-> [rows EXCEPT ![msg.id] = n],
         queue |-> IF n.retry_count < n.max_retries
                   THEN Task_retry(queue, msg) ELSE queue]

\* send_notification_task on one message; outcome is what the sender did:
\* delivered ("sent"), returned False ("false") or raised ("raises")
send_notification_task(msg, outcome) ==
    /\ BagIn(msg, schedule)
    /\ LET queue == schedule (-) SetToBag({msg})
           n == notificationLog[msg.id]
           failed == [n EXCEPT !.status = "failed",
                               !.retry_count = n.retry_count + 1]
           rows == [notificationLog EXCEPT ![msg.id] = failed]
       IN  IF ~n.stored
           THEN /\ schedule' = queue
                /\ response' = RespBody("send_notification_task", 404, "not found")
                /\ UNCHANGED notificationLog
           ELSE IF n.status = "sent"
           THEN /\ schedule' = queue
                /\ response' = RespBody("send_notification_task", 200, "already sent")
                /\ UNCHANGED notificationLog
           ELSE IF outcome = "sent"
           THEN /\ notificationLog' =
                        [notificationLog EXCEPT ![msg.id].status = "sent"]
                /\ schedule' = queue
                /\ response' = RespBody("send_notification_task", 200, "sent")
           ELSE IF outcome = "false" /\ failed.retry_count >= failed.max_retries
           THEN /\ notificationLog' = rows
                /\ schedule' = queue
                /\ response' = RespBody("send_notification_task", 500, "failed permanently")
           ELSE IF outcome = "false"
           THEN LET after == send_notification_task_except(
                                 rows, Task_retry(queue, msg), msg)
                IN  /\ notificationLog' = after.rows
                    /\ schedule' = after.queue
                    /\ response' = RespBody("send_notification_task", 500, "failed")
           ELSE LET after == send_notification_task_except(
                                 [notificationLog EXCEPT ![msg.id].status = "processing"],
                                 queue, msg)
                IN  /\ notificationLog' = after.rows
                    /\ schedule' = after.queue
                    /\ response' = RespBody("send_notification_task", 500, "failed")
    /\ UNCHANGED <<loanStores, rateLimits, windows, workers, refunds, paymentMethods, cache, clock,
                   accounts, instalments>>

\* ------------------------------ send_notification_task on two workers
\* The task loads the row, skips it when it is sent, saves it as
\* processing, calls the sender and saves the loaded object again; nothing
\* locks the row between the load and the last save.
send_notification_task_Load(w, msg) ==
    /\ workers[w].pc = "idle"
    /\ BagIn(msg, schedule)
    /\ schedule' = schedule (-) SetToBag({msg})
    /\ LET n == notificationLog[msg.id]
       IN  IF ~n.stored
           THEN /\ response' = RespBody("send_notification_task", 404, "not found")
                /\ UNCHANGED <<notificationLog, workers>>
           ELSE IF n.status = "sent"
           THEN /\ response' = RespBody("send_notification_task", 200, "already sent")
                /\ UNCHANGED <<notificationLog, workers>>
           ELSE /\ notificationLog' =
                        [notificationLog EXCEPT ![msg.id] = [n EXCEPT !.status = "processing"]]
                /\ workers' = [workers EXCEPT ![w] =
                        [pc |-> "sending", msg |-> msg,
                         notification |-> [n EXCEPT !.status = "processing"]]]
                /\ response' = RespBody("send_notification_task", 0, "processing")
    /\ UNCHANGED <<loanStores, rateLimits, windows, refunds, paymentMethods, cache, clock,
                   accounts, instalments>>

\* the sender has answered: delivered ("sent"), returned False ("false")
\* or raised ("raises")
send_notification_task_Send(w, outcome) ==
    /\ workers[w].pc = "sending"
    /\ LET msg == workers[w].msg
           n == workers[w].notification
           failed == [n EXCEPT !.status = "failed",
                               !.retry_count = n.retry_count + 1]
           rows == [notificationLog EXCEPT ![msg.id] = failed]
       IN  IF outcome = "sent"
           THEN /\ notificationLog' =
                        [notificationLog EXCEPT ![msg.id] = [n EXCEPT !.status = "sent"]]
                /\ UNCHANGED schedule
                /\ response' = RespBody("send_notification_task", 200, "sent")
           ELSE IF outcome = "false" /\ failed.retry_count >= failed.max_retries
           THEN /\ notificationLog' = rows
                /\ UNCHANGED schedule
                /\ response' = RespBody("send_notification_task", 500, "failed permanently")
           ELSE IF outcome = "false"
           THEN LET after == send_notification_task_except(
                                 rows, Task_retry(schedule, msg), msg)
                IN  /\ notificationLog' = after.rows
                    /\ schedule' = after.queue
                    /\ response' = RespBody("send_notification_task", 500, "failed")
           ELSE LET after == send_notification_task_except(notificationLog, schedule, msg)
                IN  /\ notificationLog' = after.rows
                    /\ schedule' = after.queue
                    /\ response' = RespBody("send_notification_task", 500, "failed")
    /\ workers' = [workers EXCEPT ![w] = Idle]
    /\ UNCHANGED <<loanStores, rateLimits, windows, refunds, paymentMethods, cache, clock,
                   accounts, instalments>>

\* process_failed_notifications_task: queue every failed notification the
\* filter returns
RECURSIVE delay_all(_, _)
delay_all(queue, ids) ==
    IF ids = {} THEN queue
    ELSE LET id == CHOOSE i \in ids : TRUE
         IN  delay_all(delay(queue, id), ids \ {id})

process_failed_notifications_task ==
    LET failed_notifications ==
            get_failed_notifications_for_retry(notificationLog, clock, RetryWindowHours)
    IN  /\ schedule' = delay_all(schedule, failed_notifications)
        /\ response' = RespBody("process_failed_notifications_task", 200,
                                 IF failed_notifications = {} THEN "none" ELSE "queued")
        /\ UNCHANGED <<loanStores, rateLimits, windows, workers, refunds, paymentMethods,
                       notificationLog, cache, clock, accounts, instalments>>

\* cleanup_old_notifications_task: delete the sent rows older than the
\* retention window
cleanup_old_notifications_task(days_to_keep) ==
    /\ notificationLog' =
            [i \in Indices(notificationLog) |->
                IF /\ notificationLog[i].status = "sent"
                   /\ notificationLog[i].created_at < clock - Hours(24 * days_to_keep)
                THEN [notificationLog[i] EXCEPT !.stored = FALSE]
                ELSE notificationLog[i]]
    /\ response' = Resp("cleanup_old_notifications_task", 200)
    /\ UNCHANGED <<loanStores, rateLimits, windows, workers, refunds, paymentMethods, schedule,
                   cache, clock, accounts, instalments>>

\* time passes
Tick(periods) ==
    /\ clock' = clock + periods
    /\ UNCHANGED <<loanStores, rateLimits, windows, workers, response, refunds, paymentMethods,
                   notificationLog, schedule, cache, accounts, instalments>>

\* ------------------------------------------- payments Repayment rows
\* Repayment.outstanding_amount
outstanding_amount(r) == r.amount + r.late_fee - r.amount_paid

\* the whole requested amount is credited
apply_payment_uncapped(r, amount) ==
    [r EXCEPT !.amount_paid = r.amount_paid + amount]

\* Repayment.apply_payment for a positive amount: the row it saves
apply_payment(r, amount) ==
    LET remaining_amount ==
            IF amount <= outstanding_amount(r) THEN amount ELSE outstanding_amount(r)
        amount_paid == r.amount_paid + remaining_amount
    IN  [r EXCEPT !.amount_paid = amount_paid,
                  !.status = IF amount_paid >= r.amount + r.late_fee THEN "paid"
                             ELSE IF amount_paid > 0 THEN "partial"
                             ELSE r.status]

\* Repayment.objects.create: an instalment of a positive amount
Repayment_create(amount) ==
    /\ instalments' = Append(instalments,
            [amount |-> amount, late_fee |-> 0, amount_paid |-> 0,
             status |-> "pending"])
    /\ response' = Resp("create_repayment", 201)
    /\ UNCHANGED <<loanStores, rateLimits, windows, workers, refunds, paymentMethods, notificationLog,
                   schedule, cache, clock, accounts>>

\* Repayment.apply_payment
Repayment_apply_payment(i, amount) ==
    /\ i \in Indices(instalments)
    /\ IF amount <= 0
       THEN /\ response' = RespBody("apply_payment", 200, "False")
            /\ UNCHANGED instalments
       ELSE /\ instalments' =
                    [instalments EXCEPT ![i] = apply_payment(instalments[i], amount)]
            /\ response' = RespBody("apply_payment", 200, "applied")
    /\ UNCHANGED <<loanStores, rateLimits, windows, workers, refunds, paymentMethods, notificationLog,
                   schedule, cache, clock, accounts>>

\* RepaymentAdmin.mark_as_overdue on past-due rows
RepaymentAdmin_mark_as_overdue ==
    /\ instalments' =
            [i \in Indices(instalments) |->
                IF instalments[i].status \in {"pending", "partial"}
                THEN [instalments[i] EXCEPT !.status = "overdue"]
                ELSE instalments[i]]
    /\ response' = Resp("mark_as_overdue", 200)
    /\ UNCHANGED <<loanStores, rateLimits, windows, workers, refunds, paymentMethods, notificationLog,
                   schedule, cache, clock, accounts>>

\* Repayment.calculate_late_fee of an overdue row: 5% of the outstanding
\* amount for every 30 days
calculate_late_fee(r, days_overdue) ==
    IF days_overdue > 0
    THEN (outstanding_amount(r) * LateFeePercent * days_overdue) \div (100 * 30)
    ELSE 0

\* RepaymentAdmin.calculate_late_fees
RepaymentAdmin_calculate_late_fees(days_overdue) ==
    /\ instalments' =
            [i \in Indices(instalments) |->
                IF instalments[i].status = "overdue"
                THEN [instalments[i] EXCEPT
                        !.late_fee = calculate_late_fee(instalments[i], days_overdue)]
                ELSE instalments[i]]
    /\ response' = Resp("calculate_late_fees", 200)
    /\ UNCHANGED <<loanStores, rateLimits, windows, workers, refunds, paymentMethods, notificationLog,
                   schedule, cache, clock, accounts>>

\* ------------------------------------------------ accounts and the cache
\* accounts holds the CustomUser fields of verification, credentials and
\* activity; cache holds the verification_otp_<id> entries with the period
\* at which each expires.
Otps == {"111111", "222222"}
Bvn(u) == IF u = "u1" THEN "22100000001" ELSE "22100000002"
NoEntry == [otp |-> "", expires_at |-> 0]

\* a cache whose entries never expire
cache_get_unexpiring(c, key, now) == c[key].otp

\* cache.get: None ("") for a missing or expired entry
cache_get(c, key, now) ==
    IF c[key].otp # "" /\ now < c[key].expires_at THEN c[key].otp ELSE ""

\* cache.set(key, value, timeout)
cache_set(c, key, value, now, timeout) ==
    [c EXCEPT ![key] = [otp |-> value, expires_at |-> now + timeout]]

\* cache.delete
cache_delete(c, key) == [c EXCEPT ![key] = NoEntry]

\* UserVerificationSerializer.is_valid: the BVN is the user's own and the
\* code has six characters
UserVerificationSerializer_is_valid(u, bvn, otp) ==
    bvn = accounts[u].bvn /\ otp \in Otps

\* RequestVerificationView.post up to its cache.get
RequestVerificationView_post(w, u) ==
    /\ workers[w] = Idle
    /\ IF accounts[u].is_verified
       THEN /\ response' = RespBody("request_verification", 400,
                                    "User is already verified.")
            /\ UNCHANGED workers
       ELSE IF cache_get(cache, u, clock) # ""
       THEN /\ response' = RespBody("request_verification", 429,
                    "OTP already sent. Please wait before requesting again.")
            /\ UNCHANGED workers
       ELSE /\ workers' = [workers EXCEPT ![w] = [pc |-> "set_otp", user |-> u]]
            /\ UNCHANGED response
    /\ UNCHANGED <<loanStores, rateLimits, windows, serviceStores>>

\* RequestVerificationView.post from generate_otp on: cache the code for
\* five minutes and send it
RequestVerificationView_post_Set(w, otp) ==
    /\ workers[w].pc = "set_otp"
    /\ cache' = cache_set(cache, workers[w].user, otp, clock, OtpTimeout)
    /\ response' = RespBody("request_verification", 200, otp)
    /\ workers' = [workers EXCEPT ![w] = Idle]
    /\ UNCHANGED <<loanStores, rateLimits, windows, refunds, paymentMethods, notificationLog, schedule,
                   clock, accounts, instalments>>

\* VerifyUserView.post; the pre_save receiver update_user_profile stamps
\* the date and deletes the cached code as well
VerifyUserView_post(u, bvn, otp) ==
    /\ IF ~UserVerificationSerializer_is_valid(u, bvn, otp)
       THEN /\ response' = RespBody("verify_user", 400, "field errors")
            /\ UNCHANGED <<accounts, cache>>
       ELSE LET cached_otp == cache_get(cache, u, clock)
            IN  IF cached_otp = "" \/ cached_otp # otp
                THEN /\ response' = RespBody("verify_user", 400,
                                             "Invalid or expired OTP.")
                     /\ UNCHANGED <<accounts, cache>>
                ELSE /\ accounts' = [accounts EXCEPT ![u].is_verified = TRUE,
                                                     ![u].verification_date = clock]
                     /\ cache' = cache_delete(cache, u)
                     /\ response' = RespBody("verify_user", 200,
                                             "User verified successfully.")
    /\ UNCHANGED <<loanStores, rateLimits, windows, workers, refunds, paymentMethods, notificationLog,
                   schedule, clock, instalments>>

\* the admin endpoint verify_user: verification without a code
admin_verify_user(u) ==
    /\ accounts' = [accounts EXCEPT ![u].is_verified = TRUE,
                                    ![u].verification_date = clock]
    /\ cache' = IF accounts[u].is_verified THEN cache ELSE cache_delete(cache, u)
    /\ response' = RespBody("admin_verify_user", 200, "User verified successfully.")
    /\ UNCHANGED <<loanStores, rateLimits, windows, workers, refunds, paymentMethods, notificationLog,
                   schedule, clock, instalments>>

\* ------------------------------------------- credentials and user rows
\* An account carries its authtoken Token row (token) and the expiry times
\* of the JWT refresh tokens that login has handed out (jwts): those live
\* with the clients, the server keeps no row for them.
Passwords == {"first-password", "second-password"}

\* PasswordChangeSerializer.is_valid: the old password is the user's, the
\* new one passes the length and strength validators and is confirmed
PasswordChangeSerializer_is_valid(u, old_password, new_password, new_password_confirm) ==
    /\ old_password = accounts[u].password
    /\ new_password \in Passwords
    /\ new_password = new_password_confirm

\* TokenAuthentication: the key of a Token row that exists
TokenAuthentication_authenticate(account) ==
    account.stored /\ account.is_active /\ account.token

\* TokenRefreshView / TokenVerifyView: a signed token that has not
\* expired; no server-side state is consulted
TokenVerifyView_post(account, exp, now) ==
    exp \in account.jwts /\ now < exp

\* pre_save receiver update_user_profile on deactivation: the Token rows
\* of the user are deleted
update_user_profile(old, new) ==
    IF old.is_active /\ ~new.is_active THEN [new EXCEPT !.token = FALSE] ELSE new

\* TokenObtainPairView.post (the routed login): a token pair for an active
\* user who gives the right password
TokenObtainPairView_post(u, password) ==
    /\ IF accounts[u].stored /\ accounts[u].is_active
          /\ password = accounts[u].password
       THEN /\ accounts' = [accounts EXCEPT
                    ![u].jwts = accounts[u].jwts \cup {clock + Hours(24)}]
            /\ response' = Resp("login", 200)
       ELSE /\ response' = Resp("login", 401)
            /\ UNCHANGED accounts
    /\ UNCHANGED <<loanStores, rateLimits, windows, workers, refunds, paymentMethods, notificationLog,
                   schedule, cache, clock, instalments>>

\* LogoutView.post: the Token row is deleted
LogoutView_post(u) ==
    /\ accounts[u].stored
    /\ accounts' = [accounts EXCEPT ![u].token = FALSE]
    /\ response' = Resp("logout", 200)
    /\ UNCHANGED <<loanStores, rateLimits, windows, workers, refunds, paymentMethods, notificationLog,
                   schedule, cache, clock, instalments>>

\* PasswordChangeView.post
PasswordChangeView_post(u, old_password, new_password, new_password_confirm) ==
    /\ accounts[u].stored
    /\ IF PasswordChangeSerializer_is_valid(u, old_password, new_password,
                                           new_password_confirm)
       THEN /\ accounts' = [accounts EXCEPT ![u].password = new_password,
                                            ![u].token = FALSE]
            /\ response' = RespBody("password_change", 200,
                    "Password changed successfully. Please login again.")
       ELSE /\ response' = RespBody("password_change", 400, "field errors")
            /\ UNCHANGED accounts
    /\ UNCHANGED <<loanStores, rateLimits, windows, workers, refunds, paymentMethods, notificationLog,
                   schedule, cache, clock, instalments>>

\* AdminUserDetailView.delete: deactivation
AdminUserDetailView_delete(u) ==
    /\ IF accounts[u].stored
       THEN /\ accounts' = [accounts EXCEPT ![u] =
                    update_user_profile(accounts[u],
                                        [accounts[u] EXCEPT !.is_active = FALSE])]
            /\ response' = RespBody("admin_delete_user", 204,
                                    "User deactivated successfully.")
       ELSE /\ response' = Resp("admin_delete_user", 404)
            /\ UNCHANGED accounts
    /\ UNCHANGED <<loanStores, rateLimits, windows, workers, refunds, paymentMethods, notificationLog,
                   schedule, cache, clock, instalments>>

\* the admin endpoint activate_user
activate_user(u) ==
    /\ IF accounts[u].stored
       THEN /\ accounts' = [accounts EXCEPT ![u].is_active = TRUE]
            /\ response' = Resp("activate_user", 200)
       ELSE /\ response' = Resp("activate_user", 404)
            /\ UNCHANGED accounts
    /\ UNCHANGED <<loanStores, rateLimits, windows, workers, refunds, paymentMethods, notificationLog,
                   schedule, cache, clock, instalments>>

\* UserViewSet DELETE users/<pk>/: the viewset is a ModelViewSet that
\* leaves destroy as inherited, so the row in get_queryset (the caller's
\* own, or any row for staff) is deleted, its Token row with it
UserViewSet_destroy(caller, is_staff, u) ==
    /\ accounts[caller].stored
    /\ IF accounts[u].stored /\ (is_staff \/ u = caller)
       THEN /\ accounts' = [accounts EXCEPT ![u].stored = FALSE,
                                            ![u].token = FALSE]
            /\ response' = Resp("destroy_user", 204)
       ELSE /\ response' = Resp("destroy_user", 404)
            /\ UNCHANGED accounts
    /\ UNCHANGED <<loanStores, rateLimits, windows, workers, refunds, paymentMethods, notificationLog,
                   schedule, cache, clock, instalments>>

\* ------------------------- task triggers when the broker is unreachable
\* task.delay(...) raises when the message cannot be handed to the broker.
\* No caller catches it: the exception leaves the signal handler or the
\* view, the enclosing transaction.atomic() block rolls back and the
\* request is answered by the server-error handler.

\* LoanApplicationViewSet.create with handle_loan_application_created
\* enqueuing process_credit_scoring and send_loan_notification
LoanApplicationViewSet_create_delay(u, amount, interest_rate, term_months, credit_score, broker_ok) ==
    IF broker_ok \/ PendingApplications(u) >= MaxPendingApplications
    THEN LoanApplicationViewSet_create(u, amount, interest_rate, term_months, credit_score)
    ELSE /\ response' = Resp("create_application", 500)
         /\ UNCHANGED <<serviceStores, users, applications, loans, transactions, payments,
                        gateway, repayments, notifications, webhookLog, workers>>

\* the charge.success event of a repayment transaction: its processing
\* creates a Repayment row, and handle_repayment_created enqueues
CreatesRepayment(raw) ==
    LET payload == json_loads(raw)
    IN  /\ payload.valid
        /\ payload.event = "charge.success"
        /\ payload.reference \in DOMAIN transactions
        /\ transactions[payload.reference].payment_type = "repayment"

\* PaystackWebhookView.post with handle_repayment_created enqueuing
\* send_loan_notification: the exception is re-raised by
\* _process_successful_payment and ends verify_payment like a provider error
PaystackWebhookView_post_delay(raw, signature, provider_ok, broker_ok) ==
    PaystackWebhookView_post(raw, signature,
                             provider_ok /\ (broker_ok \/ ~CreatesRepayment(raw)))

\* users/views.py RegisterView.create
RegisterView_create(u, password, password_confirm, broker_ok) ==
    /\ IF accounts[u].stored \/ password = "short" \/ password # password_confirm
       THEN /\ response' = RespBody("register", 400, "field errors")
            /\ UNCHANGED accounts
       ELSE IF ~broker_ok
       THEN /\ response' = Resp("register", 500)
            /\ UNCHANGED accounts
       ELSE /\ accounts' = [accounts EXCEPT ![u] =
                    [is_active |-> TRUE, is_verified |-> FALSE, verification_date |-> 0,
                     bvn |-> Bvn(u), password |-> password, token |-> TRUE,
                     jwts |-> {}, stored |-> TRUE]]
            /\ response' = Resp("register", 201)
    /\ UNCHANGED <<loanStores, rateLimits, windows, workers, refunds, paymentMethods, notificationLog,
                   schedule, cache, clock, instalments>>

\* ------------------------------------------------------------ rate_limit
\* quickfund_api/utils/decorators.py rate_limit, with the caller's user id
\* as cache key.  windows records what the wrapped function saw: a call let
\* through while no counter is alive opens a window, any other call let
\* through is one more call of the current window.
NoCounter == [value |-> 0, expires_at |-> 0]

\* cache.get(cache_key, 0)
cache_get_counter(c, key, now) ==
    IF now < c[key].expires_at THEN c[key].value ELSE 0

\* cache.set(cache_key, value, timeout)
cache_set_counter(c, key, value, now, timeout) ==
    [c EXCEPT ![key] = [value |-> value, expires_at |-> now + timeout]]

\* the wrapped function is invoked
func(w, key, now) ==
    IF now < rateLimits[key].expires_at
    THEN [w EXCEPT ![key].calls = @ + 1]
    ELSE [w EXCEPT ![key] = [start |-> now, calls |-> 1]]

\* one call through the decorator, handled without interruption
rate_limit(key) ==
    /\ LET current_requests == cache_get_counter(rateLimits, key, clock)
       IN  IF current_requests >= max_requests
           THEN /\ response' = RespBody("rate_limit", 429, key)
                /\ UNCHANGED <<rateLimits, windows>>
           ELSE /\ rateLimits' = cache_set_counter(rateLimits, key,
                                                   current_requests + 1, clock, window)
                /\ windows' = func(windows, key, clock)
                /\ response' = RespBody("rate_limit", 200, key)
    /\ UNCHANGED <<loanStores, workers, refunds, paymentMethods, notificationLog,
                   schedule, cache, clock, accounts, instalments>>

\* the decorator up to its limit check
rate_limit_Check(w, key) ==
    /\ workers[w].pc = "idle"
    /\ LET current_requests == cache_get_counter(rateLimits, key, clock)
       IN  IF current_requests >= max_requests
           THEN /\ response' = RespBody("rate_limit", 429, key)
                /\ UNCHANGED workers
           ELSE /\ workers' = [workers EXCEPT ![w] =
                        [pc |-> "counted", key |-> key,
                         current_requests |-> current_requests]]
                /\ UNCHANGED response
    /\ UNCHANGED <<loanStores, rateLimits, windows, refunds, paymentMethods,
                   notificationLog, schedule, cache, clock, accounts, instalments>>

\* the decorator from its cache.set on
rate_limit_Call(w) ==
    /\ workers[w].pc = "counted"
    /\ LET key == workers[w].key
       IN  /\ rateLimits' = cache_set_counter(rateLimits, key,
                                workers[w].current_requests + 1, clock, window)
           /\ windows' = func(windows, key, clock)
           /\ response' = RespBody("rate_limit", 200, key)
    /\ workers' = [workers EXCEPT ![w] = Idle]
    /\ UNCHANGED <<loanStores, refunds, paymentMethods, notificationLog,
                   schedule, cache, clock, accounts, instalments>>

\* ------------------------------------------- scheduled payment jobs
\* payments/tasks.py.  A job loads the rows of its query and handles them
\* one after another in reference order; the row counts stay far below the
\* batch of 100.
PendingAgeMinutes == 10
RetryWindowHour == 1
MaxRetryCount == 3
PAYMENT_TIMEOUT_HOURS == 24

Minutes(m) == m \div 5
Day(t) == t \div Hours(24)

StoredRows ==
    [outcome |-> "ok", transactions |-> transactions, loans |-> loans,
     repayments |-> repayments, notifications |-> notifications]

LeastOf(S) == CHOOSE x \in S : \A y \in S : x <= y

\* the loop "for transaction in ...: payment_service.verify_payment(...)"
\* of process_pending_payments and reconcile_payments: an error of one
\* verification is logged and the loop goes on
RECURSIVE verify_each(_, _, _)
verify_each(st, refs, oks) ==
    IF refs = {} THEN st
    ELSE LET r == LeastOf(refs)
             v == verify_payment_rows(st.transactions, st.loans, st.repayments,
                                      st.notifications, r, oks[r])
         IN  verify_each(v, refs \ {r}, oks)

\* the loop of process_failed_payment_retries: after a verification that
\* did not raise, the object the query loaded is saved with its count
\* raised by one; a verification that raised skips the save
RECURSIVE retry_each(_, _, _, _)
retry_each(st, loaded, refs, oks) ==
    IF refs = {} THEN st
    ELSE LET r == LeastOf(refs)
             v == verify_payment_rows(st.transactions, st.loans, st.repayments,
                                      st.notifications, r, oks[r])
             saved == IF v.outcome = "error" THEN v
                      ELSE [v EXCEPT !.transactions[r] =
                                [loaded[r] EXCEPT !.retry_count = @ + 1]]
         IN  retry_each(saved, loaded, refs \ {r}, oks)

\* the query of process_pending_payments
pending_transactions ==
    LET cutoff_time == clock - Minutes(PendingAgeMinutes)
    IN  {r \in DOMAIN transactions :
            /\ transactions[r].status = "pending"
            /\ transactions[r].created_at < cutoff_time}

\* an expiry query that never finds a row
expired_transactions_none ==
    {r \in DOMAIN transactions : FALSE}

\* the query of cleanup_expired_transactions
expired_transactions ==
    LET cutoff_time == clock - Hours(PAYMENT_TIMEOUT_HOURS)
    IN  {r \in DOMAIN transactions :
            /\ transactions[r].status = "pending"
            /\ transactions[r].created_at < cutoff_time}

\* the query of reconcile_payments, run without a date: yesterday's
\* completed transactions
reconciled_transactions ==
    LET reconcile_date == Day(clock - Hours(24))
    IN  {r \in DOMAIN transactions :
            /\ transactions[r].status = "completed"
            /\ Day(transactions[r].completed_at) = reconcile_date}

\* the query of process_failed_payment_retries
failed_transactions ==
    LET cutoff_time == clock - Hours(RetryWindowHour)
    IN  {r \in DOMAIN transactions :
            /\ transactions[r].status = "failed"
            /\ transactions[r].created_at > cutoff_time
            /\ transactions[r].retry_count < MaxRetryCount}

JobCommit(st, op) ==
    /\ transactions' = st.transactions
    /\ loans' = st.loans
    /\ repayments' = st.repayments
    /\ notifications' = st.notifications
    /\ response' = Resp(op, 200)
    /\ UNCHANGED <<serviceStores, users, applications, payments, gateway,
                   webhookLog, workers>>

\* payments/tasks.py process_pending_payments
process_pending_payments(oks) ==
    JobCommit(verify_each(StoredRows, pending_transactions, oks),
              "process_pending_payments")

\* payments/tasks.py cleanup_expired_transactions
cleanup_expired_transactions ==
    JobCommit([StoredRows EXCEPT !.transactions =
                    [r \in DOMAIN transactions |->
                        IF r \in expired_transactions
                        THEN [transactions[r] EXCEPT !.status = "expired"]
                        ELSE transactions[r]]],
              "cleanup_expired_transactions")

\* payments/tasks.py reconcile_payments
reconcile_payments(oks) ==
    JobCommit(verify_each(StoredRows, reconciled_transactions, oks),
              "reconcile_payments")

\* payments/tasks.py process_failed_payment_retries
process_failed_payment_retries(oks) ==
    JobCommit(retry_each(StoredRows, transactions, failed_transactions, oks),
              "process_failed_payment_retries")

\* ------------------------------------------------------- specifications
Init ==
    /\ users = UserProfiles
    /\ applications = <<>>
    /\ loans = <<>>
    /\ transactions = <<>>
    /\ payments = <<>>
    /\ gateway = <<>>
    /\ repayments = <<>>
    /\ notifications = EmptyBag
    /\ webhookLog = <<>>
    /\ workers = [w \in Workers |-> Idle]
    /\ response = Resp("none", 0)
    /\ refunds = EmptyBag
    /\ paymentMethods = <<>>
    /\ notificationLog = <<>>
    /\ schedule = EmptyBag
    /\ cache = [u \in Users |-> NoEntry]
    /\ clock = 0
    /\ accounts = [u \in Users |->
            [is_active |-> TRUE, is_verified |-> FALSE, verification_date |-> 0,
             bvn |-> Bvn(u), password |-> "first-password", token |-> TRUE,
             jwts |-> {}, stored |-> TRUE]]
    /\ instalments = <<>>
    /\ rateLimits = [u \in Users |-> NoCounter]
    /\ windows = [u \in Users |-> [start |-> 0, calls |-> 0]]

\* applications are submitted by any user, for any amount, rate and score
Submit ==
    /\ Len(applications) < MaxApps
    /\ \E u \in Users, amount \in Amounts, rate \in InterestRates,
          term \in Terms, score \in ScoreSamples :
            LoanApplicationViewSet_create(u, amount, rate, term, score)

\* applications that are approved on submission, so that loans exist
SubmitApproved ==
    /\ Len(applications) < MaxLoanApps
    /\ \E amount \in Amounts, rate \in InterestRates, term \in Terms :
        LoanApplicationViewSet_create("u1", amount, rate, term, AutoApproveScore)

\* the loan officer's and the borrower's requests on loans, and the
\* periodic reconciliation task
NextLoans ==
    \/ Submit
    \/ \E a \in 1..MaxApps : LoanApplicationViewSet_approve(a)
    \/ \E a \in 1..MaxApps, reason \in {"", "insufficient income"} :
            LoanApplicationViewSet_reject(a, reason)
    \/ \E l \in 1..(2 * MaxApps), amount \in 0..MaxAmount, resolved \in BOOLEAN :
            LoanViewSet_make_payment(l, amount, resolved)
    \/ update_loan_payment_status

\* gateway payments: initialisation, settlement at the gateway and the
\* three webhook endpoints
GatewayRows == Cardinality(DOMAIN transactions) + Cardinality(DOMAIN payments)

NextPayments ==
    \/ SubmitApproved
    \/ /\ GatewayRows < MaxGatewayRows
       /\ \E l \in 1..(2 * MaxLoanApps), amount \in 0..MaxAmount,
             type \in {"repayment", "penalty"}, ok \in BOOLEAN :
               PaymentService_initialize_payment(l, amount, type, ok)
    \/ /\ GatewayRows < MaxGatewayRows
       /\ \E u \in Users, l \in 1..(2 * MaxLoanApps), amount \in 0..MaxAmount,
             ok \in BOOLEAN :
               LoanRepaymentView_post(u, l, amount, ok)
    \/ \E r \in 1..MaxReference, outcome \in {"success", "failed"} :
            Gateway_Settle(r, outcome)
    \/ \E raw \in RawBodies, sig \in Signatures :
         \E ok \in IF validate_signature(raw, sig) THEN BOOLEAN ELSE {TRUE} :
            /\ validate_signature(raw, sig) => Len(webhookLog) < MaxWebhooks
            /\ PaystackWebhookView_post(raw, sig, ok)
    \/ \E raw \in RawBodies, sig \in Signatures : PaystackCallbackView_post(raw, sig)
    \/ \E raw \in RawBodies, sig \in Signatures : PaymentsPaystackWebhookView_post(raw, sig)

\* two request workers deciding applications, interleaved between the
\* status check and the write
NextDecisions ==
    \/ Submit
    \/ \E w \in Workers, a \in 1..MaxApps : LoanApplicationViewSet_approve_Read(w, a)
    \/ \E w \in Workers : LoanApplicationViewSet_approve_Write(w)
    \/ \E w \in Workers, a \in 1..MaxApps : LoanApplicationViewSet_reject_Read(w, a)
    \/ \E w \in Workers, reason \in {"", "insufficient income"} :
            LoanApplicationViewSet_reject_Write(w, reason)

\* two request workers verifying payments, interleaved between the load of
\* the loan and its save
NextVerifications ==
    \/ SubmitApproved
    \/ \E u \in Users, l \in 1..(2 * MaxLoanApps), amount \in 0..MaxAmount, ok \in BOOLEAN :
            LoanRepaymentView_post(u, l, amount, ok)
    \/ \E r \in 1..MaxReference, outcome \in {"success", "failed"} :
            Gateway_Settle(r, outcome)
    \/ \E w \in Workers, u \in Users, r \in 1..MaxReference, ok \in BOOLEAN :
            /\ r \in DOMAIN payments
            /\ payments[r].status = "pending"    \* each payment is verified once
            /\ PaymentVerificationView_get_Read(w, u, r, ok)
    \/ \E w \in Workers : PaymentVerificationView_get_Write(w)

\* one loan of the largest principal and one charge on it, which the
\* gateway delivers repeatedly
NextRedelivery ==
    \/ /\ Len(applications) < MaxLoanApps
       /\ \E rate \in InterestRates, term \in Terms :
            LoanApplicationViewSet_create("u1", MaxPrincipal, rate, term, AutoApproveScore)
    \/ /\ GatewayRows < MaxGatewayRows
       /\ \E l \in 1..(2 * MaxLoanApps), amount \in 0..MaxAmount,
             type \in {"repayment", "penalty"}, ok \in BOOLEAN :
               PaymentService_initialize_payment(l, amount, type, ok)
    \/ \E r \in 1..MaxReference, outcome \in {"success", "failed"} :
            Gateway_Settle(r, outcome)
    \/ \E raw \in RawBodies, sig \in Signatures :
         \E ok \in IF validate_signature(raw, sig) THEN BOOLEAN ELSE {TRUE} :
            /\ validate_signature(raw, sig) => Len(webhookLog) < MaxDeliveries
            /\ PaystackWebhookView_post(raw, sig, ok)

\* borrowers submitting applications, well-formed or not, until the limit
\* of pending applications is met, and the officer rejecting some
NextApplications ==
    \/ /\ Len(applications) < MaxSubmissions
       /\ \E u \in Users, purpose \in {"", "school fees"}, amount \in Amounts,
             term \in Terms, score \in ScoreSamples :
               LoanApplicationViewSet_create_request(u, purpose, amount, 0, term, score)
    \/ \E a \in 1..MaxSubmissions : LoanApplicationViewSet_reject(a, "")

\* charges on one loan, each delivered once by the gateway, and the
\* refunds requested against them
NextRefunds ==
    \/ /\ Len(applications) < MaxLoanApps
       /\ LoanApplicationViewSet_create("u1", MaxPrincipal, 0, 1, AutoApproveScore)
    \/ /\ Cardinality(DOMAIN transactions) < MaxCharges
       /\ \E amount \in 0..MaxAmount :
               PaymentService_initialize_payment(1, amount, "repayment", TRUE)
    \/ \E r \in 1..MaxReference : Gateway_Settle(r, "success")
    \/ \E raw \in RawBodies, sig \in Signatures :
            /\ validate_signature(raw, sig)
            /\ json_loads(raw).valid
            /\ json_loads(raw).reference \in DOMAIN transactions
            /\ transactions[json_loads(raw).reference].status = "pending"
            /\ PaystackWebhookView_post(raw, sig, TRUE)
    \/ \E r \in 1..MaxReference, amount \in 0..(MaxAmount + 1), ok \in BOOLEAN :
            RefundService_process_refund(r, amount, ok)

\* two request workers creating, updating and promoting payment methods
NextMethods ==
    \/ \E w \in Workers, u \in Users : PaymentMethodViewSet_perform_create(w, u)
    \/ \E w \in Workers, u \in Users, pk \in 1..MaxMethods, d \in BOOLEAN :
            PaymentMethodViewSet_update(w, u, pk, d)
    \/ \E w \in Workers, u \in Users, pk \in 1..MaxMethods :
            PaymentMethodViewSet_set_default(w, u, pk)
    \/ \E w \in Workers : PaymentMethodViewSet_set_default_Clear(w)
    \/ \E w \in Workers : PaymentMethod_save_Clear(w)
    \/ \E w \in Workers : PaymentMethod_save_Write(w)

\* notifications created, delivered, retried and purged as time passes
NextNotifications ==
    \/ (/\ Len(notificationLog) < MaxNotifications
        /\ BagCardinality(schedule) < MaxQueued
        /\ \E max_retries \in {2, DefaultMaxAttempts} :
                send_bulk_notifications_task(max_retries))
    \/ (BagCardinality(schedule) <= MaxQueued
        /\ \E msg \in BagToSet(schedule), outcome \in {"sent", "false", "raises"} :
                send_notification_task(msg, outcome))
    \/ (BagCardinality(schedule) + Len(notificationLog) <= MaxQueued
        /\ process_failed_notifications_task)
    \/ cleanup_old_notifications_task(DaysToKeep)
    \/ (clock < MaxTicks * Hours(RetryWindowHours + 1)
        /\ \E d \in {Hours(RetryWindowHours + 1), Hours(24 * (DaysToKeep + 1))} : Tick(d))

\* instalments created, paid in any amounts, marked overdue and charged
NextInstalments ==
    \/ (Len(instalments) < MaxInstalments
        /\ \E amount \in 1..MaxDue : Repayment_create(amount))
    \/ \E i \in 1..MaxInstalments, amount \in -1..(MaxDue + 2) :
            Repayment_apply_payment(i, amount)
    \/ RepaymentAdmin_mark_as_overdue
    \/ \E days \in {600, 1200} :
            (\A i \in Indices(instalments) :
                instalments[i].status = "overdue"
                    => calculate_late_fee(instalments[i], days) \in -MaxFee..MaxFee)
            /\ RepaymentAdmin_calculate_late_fees(days)

\* verification codes requested by two workers and confirmed as time passes
NextOtp ==
    \/ \E w \in Workers, u \in Users : RequestVerificationView_post(w, u)
    \/ \E w \in Workers, otp \in Otps : RequestVerificationView_post_Set(w, otp)
    \/ \E u \in Users : \E bvn \in {Bvn(u), "22100000009"}, otp \in Otps \cup {"12"} :
            VerifyUserView_post(u, bvn, otp)
    \/ \E u \in Users : admin_verify_user(u)
    \/ (clock < MaxPeriods /\ Tick(1))

\* logins, logouts, password changes and the delete paths of user rows
NextAccounts ==
    \/ \E u \in Users, password \in Passwords :
            /\ Cardinality(accounts[u].jwts) < MaxLogins
            /\ TokenObtainPairView_post(u, password)
    \/ \E u \in Users : LogoutView_post(u)
    \/ \E u \in Users, old \in Passwords,
          new, confirm \in Passwords \cup {"short"} :
            PasswordChangeView_post(u, old, new, confirm)
    \/ \E u \in Users : AdminUserDetailView_delete(u)
    \/ \E u \in Users : activate_user(u)
    \/ \E caller, u \in Users, is_staff \in BOOLEAN :
            UserViewSet_destroy(caller, is_staff, u)
    \/ (clock < MaxPeriods /\ Tick(1))

\* the scheduled payment jobs on one loan of the largest principal, with
\* charges initialised in the first hour; the clock moves by a quarter of
\* an hour, an hour or a day
JobTick ==
    \E d \in {Minutes(15), Hours(1), Hours(24)} :
        /\ IF d = Hours(24) THEN Day(clock) < MaxDays
           ELSE clock % Hours(24) < Hours(1) + Minutes(15)
        /\ Tick(d)

NextJobs ==
    \/ /\ Len(applications) < MaxLoanApps
       /\ \E rate \in InterestRates, term \in Terms :
            LoanApplicationViewSet_create("u1", MaxPrincipal, rate, term, AutoApproveScore)
    \/ /\ GatewayRows < MaxGatewayRows
       /\ clock <= Hours(RetryWindowHour)
       /\ \E l \in 1..(2 * MaxLoanApps), amount \in 0..MaxAmount,
             type \in {"repayment", "penalty"}, ok \in BOOLEAN :
               PaymentService_initialize_payment(l, amount, type, ok)
    \/ \E r \in 1..MaxReference, outcome \in {"success", "failed"} :
            Gateway_Settle(r, outcome)
    \/ /\ Len(repayments) < MaxRepayments
       /\ \E oks \in [DOMAIN transactions -> BOOLEAN] : process_pending_payments(oks)
    \/ cleanup_expired_transactions
    \/ /\ Len(repayments) < MaxRepayments
       /\ \E oks \in [DOMAIN transactions -> BOOLEAN] : reconcile_payments(oks)
    \/ /\ Len(repayments) < MaxRepayments
       /\ \E oks \in [DOMAIN transactions -> BOOLEAN] :
            process_failed_payment_retries(oks)
    \/ JobTick

\* one charge that the pending-payment poller, the retry job and the
\* webhook endpoint all settle, within the first quarter of an hour
NextSettlements ==
    \/ /\ Len(applications) < MaxLoanApps
       /\ \E rate \in InterestRates, term \in Terms :
            LoanApplicationViewSet_create("u1", MaxPrincipal, rate, term, AutoApproveScore)
    \/ /\ GatewayRows < MaxGatewayRows
       /\ \E l \in 1..(2 * MaxLoanApps), amount \in 0..MaxAmount,
             type \in {"repayment", "penalty"}, ok \in BOOLEAN :
               PaymentService_initialize_payment(l, amount, type, ok)
    \/ \E r \in 1..MaxReference, outcome \in {"success", "failed"} :
            Gateway_Settle(r, outcome)
    \/ /\ Len(repayments) < MaxRepayments
       /\ \E oks \in [DOMAIN transactions -> BOOLEAN] : process_pending_payments(oks)
    \/ /\ Len(repayments) < MaxRepayments
       /\ \E oks \in [DOMAIN transactions -> BOOLEAN] :
            process_failed_payment_retries(oks)
    \/ \E raw \in RawBodies, sig \in Signatures :
         \E ok \in IF validate_signature(raw, sig) THEN BOOLEAN ELSE {TRUE} :
            /\ validate_signature(raw, sig) => Len(webhookLog) < MaxWebhooks
            /\ Len(repayments) < MaxRepayments
            /\ PaystackWebhookView_post(raw, sig, ok)
    \/ (clock < Minutes(15) /\ Tick(Minutes(15)))

\* two task workers taking messages of one notification from the queue
NextDeliveries ==
    \/ (/\ Len(notificationLog) < MaxNotifications
        /\ BagCardinality(schedule) < MaxQueued
        /\ \E max_retries \in {2, DefaultMaxAttempts} :
                send_bulk_notifications_task(max_retries))
    \/ \E w \in Workers, msg \in BagToSet(schedule) : send_notification_task_Load(w, msg)
    \/ (BagCardinality(schedule) < MaxQueued
        /\ \E w \in Workers, outcome \in {"sent", "false", "raises"} :
                send_notification_task_Send(w, outcome))
    \/ (BagCardinality(schedule) + Len(notificationLog) <= MaxQueued
        /\ process_failed_notifications_task)

\* registrations, applications and repayment webhooks while the broker is
\* reachable or not
NextTriggers ==
    \/ \E u \in Users : UserViewSet_destroy(u, FALSE, u)
    \/ \E u \in Users, password, confirm \in {"first-password", "short"},
          broker_ok \in BOOLEAN :
            RegisterView_create(u, password, confirm, broker_ok)
    \/ /\ Len(applications) < MaxLoanApps
       /\ \E rate \in InterestRates, term \in Terms, broker_ok \in BOOLEAN :
            LoanApplicationViewSet_create_delay("u1", MaxPrincipal, rate, term,
                                                AutoApproveScore, broker_ok)
    \/ /\ GatewayRows < MaxGatewayRows
       /\ \E l \in 1..(2 * MaxLoanApps), amount \in 0..MaxAmount,
             type \in {"repayment", "penalty"}, ok \in BOOLEAN :
               PaymentService_initialize_payment(l, amount, type, ok)
    \/ \E r \in 1..MaxReference, outcome \in {"success", "failed"} :
            Gateway_Settle(r, outcome)
    \/ \E raw \in RawBodies, sig \in Signatures, broker_ok \in BOOLEAN :
         \E ok \in IF validate_signature(raw, sig) THEN BOOLEAN ELSE {TRUE} :
            /\ validate_signature(raw, sig) => Len(webhookLog) < MaxWebhooks
            /\ PaystackWebhookView_post_delay(raw, sig, ok, broker_ok)

\* calls of one rate-limited view by any caller, one after another
NextRateWindow ==
    \/ \E key \in Users : rate_limit(key)
    \/ (clock < MaxRateTicks /\ Tick(1))

\* two request workers inside the decorator for the same caller
NextRateLimit ==
    \/ \E w \in Workers : rate_limit_Check(w, "u1")
    \/ \E w \in Workers : rate_limit_Call(w)
    \/ (clock < MaxRateTicks /\ Tick(1))

Next == NextRateWindow \/ NextRateLimit \/ NextTriggers \/ NextDeliveries \/ NextSettlements \/ NextJobs \/ NextAccounts \/ NextOtp \/ NextInstalments \/ NextNotifications \/ NextMethods \/ NextRefunds \/ NextApplications \/ NextLoans \/ NextPayments \/ NextDecisions \/ NextVerifications \/ NextRedelivery

Spec == Init /\ [][Next]_vars

\* Every behaviour of the specifications below is a behaviour of Spec.
SpecLoans == Init /\ [][NextLoans]_vars
SpecPayments == Init /\ [][NextPayments]_vars
SpecDecisions == Init /\ [][NextDecisions]_vars
SpecVerifications == Init /\ [][NextVerifications]_vars
SpecRedelivery == Init /\ [][NextRedelivery]_vars
SpecApplications == Init /\ [][NextApplications]_vars
SpecRefunds == Init /\ [][NextRefunds]_vars
SpecMethods == Init /\ [][NextMethods]_vars
SpecAccounts == Init /\ [][NextAccounts]_vars
SpecOtp == Init /\ [][NextOtp]_vars
SpecInstalments == Init /\ [][NextInstalments]_vars
SpecNotifications == Init /\ [][NextNotifications]_vars
SpecDeliveries == Init /\ [][NextDeliveries]_vars
SpecTriggers == Init /\ [][NextTriggers]_vars
SpecRateWindow == Init /\ [][NextRateWindow]_vars
SpecRateLimit == Init /\ [][NextRateLimit]_vars
SpecJobs == Init /\ [][NextJobs]_vars
SpecSettlements == Init /\ [][NextSettlements]_vars

\* The scheduler runs the periodic jobs again and again and time does not
\* stop: the expiry job and the clock are taken whenever they stay enabled.
SpecJobsFair ==
    /\ Init
    /\ [][NextJobs]_vars
    /\ WF_vars(cleanup_expired_transactions)
    /\ WF_vars(JobTick)

\* ------------------------------------------------------------- properties
\* the Repayment rows a charge reference has produced
RepaymentsOf(reference) ==
    {i \in Indices(repayments) : repayments[i].transaction_reference = reference}

\* C1: however often the gateway delivers the successful charge of one
\* payment reference, that reference debits the loan once (one Repayment
\* row) and is announced by one "payment received" notification.
C1_ChargeAppliedOnce ==
    \A reference \in DOMAIN transactions :
        /\ Cardinality(RepaymentsOf(reference)) <= 1
        /\ Cardinality({i \in RepaymentsOf(reference) :
                           NotifyCount("payment_received", i) > 0}) <= 1

\* C2: a step that records a repayment of amount a on a loan whose balance
\* is X leaves the balance at X - a when a <= X, and at exactly 0 with the
\* loan completed when a > X.
C2_RepaymentArithmetic ==
    [][Len(repayments') = Len(repayments) + 1 =>
        LET repayment == repayments'[Len(repayments')]
            X == loans[repayment.loan].outstanding_balance
            a == repayment.amount
            after == loans'[repayment.loan]
        IN  IF a <= X
            THEN after.outstanding_balance = X - a
            ELSE after.outstanding_balance = 0 /\ after.status = "completed"]_vars

\* C3: a verified repayment that leaves something to pay lowers the balance
\* the loan has at that moment by its amount, whatever other repayment of
\* the loan was handled meanwhile.
C3_NoLostDecrement ==
    [][\A w \in Workers :
        (workers[w].pc = "repay" /\ PaymentVerificationView_get_Write(w)) =>
            LET payment == payments[workers[w].target]
                X == loans[payment.loan].outstanding_balance
            IN  X - payment.amount > 0 =>
                    loans'[payment.loan].outstanding_balance = X - payment.amount]_vars

\* a request that leaves every payment, transaction and loan as it was and
\* is answered 400
RejectedUnchanged ==
    /\ response'.code = 400
    /\ UNCHANGED <<transactions, payments, loans, repayments, notifications, webhookLog>>

C5_BalanceNeverIncreases ==
    [][\A i \in Indices(loans) :
        loans'[i].outstanding_balance <= loans[i].outstanding_balance]_vars

\* the lifecycle the specification gives a loan
LifecycleStart == "pending"
LifecycleEdges ==
    { <<"pending", "under_review">>, <<"under_review", "approved">>,
      <<"approved", "disbursed">>, <<"disbursed", "active">>,
      <<"active", "completed">>, <<"active", "overdue">>,
      <<"overdue", "defaulted">>,
      <<"pending", "rejected">>, <<"under_review", "rejected">>,
      <<"pending", "cancelled">>, <<"approved", "cancelled">> }
TerminalStatuses == {"rejected", "completed", "defaulted", "cancelled"}
NonTerminalStatuses ==
    {"pending", "under_review", "approved", "disbursed", "active", "overdue"}

\* C6: every change of a loan's status follows an edge of the lifecycle,
\* and a new loan starts at the lifecycle's start.
C6_StatusFollowsLifecycle ==
    [][/\ \A i \in Indices(loans) :
            loans'[i].status # loans[i].status =>
                <<loans[i].status, loans'[i].status>> \in LifecycleEdges
       /\ \A i \in Indices(loans') \ Indices(loans) :
            loans'[i].status = LifecycleStart]_vars

\* C7: a loan whose status is rejected, completed, defaulted or cancelled
\* keeps that status in every later step.
C7_TerminalIsFinal ==
    [][\A i \in Indices(loans) :
        loans[i].status \in TerminalStatuses =>
            loans'[i].status = loans[i].status]_vars

\* the applications of which user u holds a loan in a non-terminal state
OpenLoanApplications(u) ==
    {loans[i].application : i \in {j \in Indices(loans) :
        loans[j].borrower = u /\ loans[j].status \in NonTerminalStatuses}}

\* C8: no user holds non-terminal loans from more than one application, and
\* can_apply_for_loan reports a user who holds a non-terminal loan
\* ineligible.
C8_OneOpenLoanPerUser ==
    \A u \in Users :
        /\ Cardinality(OpenLoanApplications(u)) <= 1
        /\ OpenLoanApplications(u) # {} => ~can_apply_for_loan(u)[1]

\* the Loan rows created from application app_id
LoansOf(ls, app_id) == {i \in Indices(ls) : ls[i].application = app_id}

\* C9: an approved application has exactly one Loan, an application that
\* is pending or rejected has none.
C9_OneLoanPerApproval ==
    \A a \in Indices(applications) :
        Cardinality(LoansOf(loans, a)) =
            IF applications[a].status = "approved" THEN 1 ELSE 0

\* C10: once an application is no longer pending, no approve or reject
\* request changes it or creates a loan from it: it is decided once.
C10_DecidedOnce ==
    [][\A a \in Indices(applications) :
        applications[a].status # "pending" =>
            /\ applications'[a] = applications[a]
            /\ LoansOf(loans', a) = LoansOf(loans, a)]_vars

\* C11: a submission by a user who has three pending applications is
\* answered with the business-logic error, whatever its own fields are,
\* and creates no application and no loan.
C11_FourthRefused ==
    [][\A u \in Users, purpose \in {"", "school fees"}, amount \in Amounts,
          term \in Terms, score \in ScoreSamples :
        (/\ PendingApplications(u) >= MaxPendingApplications
         /\ LoanApplicationViewSet_create_request(u, purpose, amount, 0, term, score))
        => /\ response' = RespBody("create_application", 400,
                                   "Maximum number of pending applications reached")
           /\ UNCHANGED <<applications, loans>>]_vars

\* what has been refunded of, and what may still be refunded of, a charge
Refunded(rs, reference) == Abs(SumRefunds(rs, reference))
Refundable(reference) == transactions[reference].amount - Refunded(refunds, reference)

C13_OneDefaultMethod ==
    [][/\ \A u \in Users : Cardinality(DefaultsOf(paymentMethods', u)) <= 1
       /\ \A w \in Workers :
            (/\ workers[w].pc = "write"
             /\ workers[w].op = "set_default"
             /\ PaymentMethod_save_Write(w)
             /\ response'.code = 200)
            => DefaultsOf(paymentMethods', workers[w].object.user)
                    = {workers[w].object.pk}]_vars

\* methods A then B of one user, B set as default after A had been
C13_Witness ==
    /\ response = Resp("set_default", 200)
    /\ Len(paymentMethods) = 2
    /\ paymentMethods[1].user = paymentMethods[2].user
    /\ ~paymentMethods[1].is_default
    /\ paymentMethods[2].is_default

\* C14: a notification whose delivery has failed as often as its maximum
\* allows is from then on not eligible for the retry job, is not queued by
\* it, and stays stored with status failed.
Exhausted(n) == n.stored /\ n.status = "failed" /\ n.retry_count >= n.max_retries

C14_ExhaustedStaysFailed ==
    [][\A i \in Indices(notificationLog) :
        Exhausted(notificationLog[i]) =>
            /\ ~can_retry(notificationLog'[i])
            /\ i \notin get_failed_notifications_for_retry(
                            notificationLog', clock', RetryWindowHours)
            /\ (process_failed_notifications_task =>
                    \A r \in 0..TaskMaxRetries :
                        CopiesIn([id |-> i, retries |-> r], schedule')
                            = CopiesIn([id |-> i, retries |-> r], schedule))
            /\ notificationLog'[i].stored
            /\ notificationLog'[i].status = "failed"]_vars

\* C15: a new Repayment has amount_paid within amount + late_fee, every
\* apply_payment call keeps it there whatever amount is requested, and
\* outstanding_amount is amount + late_fee - amount_paid afterwards.
WithinDue(r) == r.amount_paid <= r.amount + r.late_fee

C15_PaidWithinDue ==
    [][/\ (\E amount \in 1..MaxDue : Repayment_create(amount))
            => WithinDue(instalments'[Len(instalments')])
       /\ \A i \in Indices(instalments), amount \in -1..(MaxDue + 2) :
            (WithinDue(instalments[i]) /\ Repayment_apply_payment(i, amount))
            => /\ WithinDue(instalments'[i])
               /\ outstanding_amount(instalments'[i])
                    = instalments'[i].amount + instalments'[i].late_fee
                        - instalments'[i].amount_paid
               /\ outstanding_amount(instalments'[i]) >= 0]_vars

\* a payment above what was left has been applied to a part-paid
\* instalment that carries a late fee
C15_Witness ==
    /\ response = RespBody("apply_payment", 200, "applied")
    /\ \E i \in Indices(instalments) :
            /\ instalments[i].late_fee > 0
            /\ instalments[i].status = "paid"
            /\ instalments[i].amount_paid = instalments[i].amount + instalments[i].late_fee

C17_OneCodePerWindow ==
    [][/\ \A w \in Workers, otp \in Otps :
            RequestVerificationView_post_Set(w, otp)
                => cache_get(cache, workers[w].user, clock) = ""
       /\ \A w \in Workers, u \in Users :
            (RequestVerificationView_post(w, u) /\ ~accounts[u].is_verified)
                => IF cache_get(cache, u, clock) # ""
                   THEN response'.code = 429 /\ UNCHANGED cache
                   ELSE workers'[w].pc = "set_otp"]_vars

\* C18: a password change goes through only when the current password
\* given is the user's; then no token issued before it authenticates any
\* more; a refused change leaves password and tokens as they were.
C18_PasswordChangeRevokes ==
    [][\A u \in Users, old \in Passwords, new, confirm \in Passwords \cup {"short"} :
        PasswordChangeView_post(u, old, new, confirm) =>
            IF response'.code = 200
            THEN /\ old = accounts[u].password
                 /\ accounts'[u].password = new
                 /\ ~TokenAuthentication_authenticate(accounts'[u])
                 /\ \A exp \in accounts[u].jwts :
                        ~TokenVerifyView_post(accounts'[u], exp, clock')
            ELSE UNCHANGED accounts]_vars

\* C19: no step removes a user row; the delete paths leave the row stored
\* and only clear is_active.
C19_NoUserRowRemoved ==
    [][\A u \in Users : accounts[u].stored => accounts'[u].stored]_vars

\* C20: every webhook request, whether processed, ignored, failed in
\* processing or rejected, adds a log record with its gateway, its event
\* type and the outcome of processing.
C20_EveryWebhookLogged ==
    [][\A raw \in RawBodies, sig \in Signatures, ok \in BOOLEAN :
        (PaymentsPaystackWebhookView_post(raw, sig)
            \/ PaystackWebhookView_post(raw, sig, ok)) =>
            /\ Len(webhookLog') = Len(webhookLog) + 1
            /\ webhookLog'[Len(webhookLog')].provider = "paystack"
            /\ webhookLog'[Len(webhookLog')].status
                    \in {"success", "ignored", "error", "rejected"}
            /\ json_loads(raw).valid
                    => webhookLog'[Len(webhookLog')].event_type = json_loads(raw).event]_vars

\* C21: a webhook request is answered 400 when its signature is missing or
\* wrong or its body is not JSON, and otherwise 200 when the event is
\* processed or 500 when processing fails.
C21_WebhookStatusCodes ==
    [][\A raw \in RawBodies, sig \in Signatures, ok \in BOOLEAN :
        (PaymentsPaystackWebhookView_post(raw, sig)
            \/ PaystackWebhookView_post(raw, sig, ok)) =>
            IF sig = 0 \/ ~validate_signature(raw, sig) \/ ~json_loads(raw).valid
            THEN response'.code = 400
            ELSE response'.code \in {200, 500}]_vars

\* C22: rejecting a pending application without a reason is refused and
\* leaves it pending; an application becomes rejected only with a
\* non-empty reason on record.
C22_RejectionNeedsReason ==
    [][\A a \in 1..MaxApps, reason \in {"", "insufficient income"} :
        (/\ a \in Indices(applications)
         /\ applications[a].status = "pending"
         /\ LoanApplicationViewSet_reject(a, reason)) =>
            /\ reason = "" => (response'.code # 200 /\ applications'[a].status = "pending")
            /\ applications'[a].status = "rejected"
                    => applications'[a].rejection_reason # ""]_vars


\* the Repayment rows added by the step
NewRepayments == {i \in Indices(repayments') : i > Len(repayments)}

\* C23: a payment reference that has been applied to its loan (a Repayment
\* row carries it) is not applied again by any later verification, whether
\* by the pending-payment poller, the retry job or the reconciliation job:
\* no step adds a Repayment row for it, and a step that adds rows for no
\* other reference leaves the balance of its loan alone.
C23_AppliedAtMostOnce ==
    [][\A reference \in DOMAIN transactions :
        RepaymentsOf(reference) # {} =>
            /\ \A i \in NewRepayments :
                    repayments'[i].transaction_reference # reference
            /\ (\A i \in NewRepayments :
                    repayments'[i].transaction_reference = reference) =>
                  loans'[transactions[reference].loan].outstanding_balance =
                      loans[transactions[reference].loan].outstanding_balance]_vars


SettledStatuses == {"successful", "completed", "failed"}

\* C24: the status of a payment (a PaymentTransaction or a Payment row)
\* becomes successful/completed or failed only in a step that found it
\* pending; in particular a completed payment is never turned to failed by
\* a later failure webhook or failed verification.
C24_SettledOnlyFromPending ==
    [][/\ \A r \in DOMAIN transactions :
            (/\ transactions'[r].status # transactions[r].status
             /\ transactions'[r].status \in SettledStatuses) =>
                transactions[r].status = "pending"
       /\ \A r \in DOMAIN payments :
            (/\ payments'[r].status # payments[r].status
             /\ payments'[r].status \in SettledStatuses) =>
                payments[r].status = "pending"]_vars


C26_RetriesCounted ==
    [][\A oks \in [DOMAIN transactions -> BOOLEAN] :
        process_failed_payment_retries(oks) =>
            \A r \in failed_transactions :
                /\ transactions[r].retry_count < MaxRetryCount
                /\ clock < transactions[r].created_at + Hours(RetryWindowHour)
                /\ transactions'[r].retry_count = transactions[r].retry_count + 1]_vars


\* C27: a notification is delivered at most once: whenever a worker's
\* sender delivers a notification, that notification has not been
\* delivered before (its row is not yet sent), also when two workers run
\* send_notification_task for it at the same time.
C27_DeliveredAtMostOnce ==
    [][\A w \in Workers :
        (workers[w].pc = "sending" /\ send_notification_task_Send(w, "sent")) =>
            notificationLog[workers[w].msg.id].status # "sent"]_vars


\* C28: when a task trigger cannot be enqueued, the change that caused it
\* still commits and the request succeeds: the new application is stored
\* and answered 201, the registered user is stored and answered 201, and
\* the completed repayment is stored and its webhook answered 200.
C28_TriggerFailureOnlyLogged ==
    [][/\ \A rate \in InterestRates, term \in Terms :
            (/\ PendingApplications("u1") < MaxPendingApplications
             /\ LoanApplicationViewSet_create_delay("u1", MaxPrincipal, rate, term,
                                                    AutoApproveScore, FALSE)) =>
                /\ response'.code = 201
                /\ Len(applications') = Len(applications) + 1
       /\ \A u \in Users :
            (~accounts[u].stored
             /\ RegisterView_create(u, "first-password", "first-password", FALSE)) =>
                /\ response'.code = 201
                /\ accounts'[u].stored
       /\ \A raw \in RawBodies :
            (/\ CreatesRepayment(raw)
             /\ PaystackWebhookView_post_delay(raw, hmac_digest(SecretKey, raw),
                                               TRUE, FALSE)) =>
                /\ response'.code = 200
                /\ Len(repayments') = Len(repayments) + 1]_vars


\* C29: per caller key, at most max_requests calls reach the wrapped
\* function within one window, also when calls of the caller are handled
\* concurrently.
C29_AtMostNPerWindow ==
    \A key \in Users : windows[key].calls <= max_requests

\* C30: the window is fixed: a live counter expires one window after the
\* first call let through in that window, and a call is refused with 429
\* only before that time.
C30_FixedWindow ==
    [][\A key \in Users :
        /\ clock < rateLimits'[key].expires_at =>
                rateLimits'[key].expires_at = windows'[key].start + window
        /\ (rate_limit(key) /\ response'.code = 429) =>
                clock < windows[key].start + window]_vars

=============================================================================
